---- MODULE Spec2Model ----
(***************************************************************************)
(* Student Career Success Predictor: the inference backend (pipeline       *)
(* cache, prediction, metrics, Model Store tables) and the prediction      *)
(* form of the frontend.                                                   *)
(*                                                                         *)
(* Numbers.  Student attributes are held in tenths (85 is 8.5), so that    *)
(* the fractional values parseFloat lets through stay integers here.       *)
(* A probability is held in units of 1/n_estimators (0 .. 200), the grid   *)
(* on which an average over 200 trees lies; a confidence is held in the    *)
(* same unit.  Metrics are held in percent.                                *)
(***************************************************************************)
EXTENDS Integers, Sequences, FiniteSets, TLC

\* ------------------------------------------------------------------ bounds
MaxRuns == 2          \* training runs explored
MaxPredictions == 2   \* rows of the predictions table explored
MaxPending == 2       \* POST /predict requests waiting on the event loop
MaxRows == 7          \* rows of the training CSV file
MaxSaved == 2         \* predictions saved while the pages are open
MaxFeatures == 11     \* features of the metrics the chart is given

\* ------------------------------------------------------- program constants
N_ESTIMATORS == 200   \* RandomForestClassifier(n_estimators=200)
HALF == 100           \* the 0.5 of calculate_confidence, in 1/200
GE_MIN == 0           \* Field(ge=0)
LE_MAX == 100         \* Field(le=10), in tenths
MIN_LENGTH == 1       \* Field(min_length=1)
SALARY_MIN == 50000        \* df['Starting_Salary'] >= 50000
SATISFACTION_MIN == 70     \* df['Career_Satisfaction'] >= 7, in tenths
TEST_PERCENT == 20         \* Split: 80% training, 20% testing
MIN_SAMPLES_SPLIT == 5     \* RandomForestClassifier(min_samples_split=5)
MIN_RECORDS == 5           \* the least number of rows train() accepts
HISTORY_DEFAULT == 50      \* Query(default=50, ...)
HISTORY_GE == 1            \* Query(..., ge=1, ...)
HISTORY_LE == 100          \* Query(..., le=100)
PAGE_LIMIT == 50           \* HistoryTable: /history?limit=50
STORE_ATTEMPTS == 1        \* a DatabaseService method is called once, no loop
TOP_FEATURES == 10         \* FeatureImportanceChart: .slice(0, 10)
NotANumber == -2           \* float('nan') where a metric is a percentage

FieldNames ==
    {"University_GPA", "Field_of_Study", "Gender",
     "Internships_Completed", "Soft_Skills_Score", "Networking_Score"}

Abs(x) == IF x < 0 THEN -x ELSE x
Max(a, b) == IF a >= b THEN a ELSE b
Last(s) == s[Len(s)]

\* --------------------------------------------------------- request bodies
\* The record of end-to-end scenario 1 (GPA 8.5, 3 internships, 8.0, 7.5),
\* with the GPA left open.
Base(g) ==
    [University_GPA |-> g, Field_of_Study |-> "Computer Science",
     Gender |-> "Male", Internships_Completed |-> 30,
     Soft_Skills_Score |-> 80, Networking_Score |-> 75]

Drop(body, f) == [k \in (DOMAIN body) \ {f} |-> body[k]]

ValidBodies == {Base(g) : g \in {50, 100}}

\* JSON bodies a client may POST besides the valid ones: a field out of its
\* domain (GPA 11 is end-to-end scenario 2), two fields out of their domain,
\* and a required field left out.
InvalidBodies ==
    {[Base(85) EXCEPT !.University_GPA = 110],
     [Base(85) EXCEPT !.Soft_Skills_Score = -1],
     [Base(85) EXCEPT !.Internships_Completed = -10],
     [Base(85) EXCEPT !.University_GPA = 85, !.Networking_Score = 120],
     Drop(Base(85), "Gender"),
     Drop(Base(85), "University_GPA")}

Bodies == ValidBodies \cup InvalidBodies

\* ------------------------------------------------- StudentInput (pydantic)
IsWhole(v) == v % 10 = 0

StrLen(s) == IF s = "" THEN 0 ELSE 1

FloatFieldErrorNoUpper(body, f) ==
    \/ f \notin DOMAIN body
    \/ (f \in DOMAIN body /\ body[f] < GE_MIN)

\* float = Field(ge=0, le=10)
FloatFieldError(body, f) ==
    \/ f \notin DOMAIN body
    \/ (f \in DOMAIN body /\ (body[f] < GE_MIN \/ body[f] > LE_MAX))

\* int = Field(ge=0): a number with a fractional part is no int
IntFieldError(body, f) ==
    \/ f \notin DOMAIN body
    \/ (f \in DOMAIN body /\ (~IsWhole(body[f]) \/ body[f] < GE_MIN))

\* str = Field(min_length=1)
StrFieldError(body, f) ==
    \/ f \notin DOMAIN body
    \/ (f \in DOMAIN body /\ StrLen(body[f]) < MIN_LENGTH)

StudentInputNoGpaUpper(body) ==
    {f \in {"University_GPA"} : FloatFieldErrorNoUpper(body, f)}
    \cup {f \in {"Soft_Skills_Score", "Networking_Score"} :
            FloatFieldError(body, f)}
    \cup {f \in {"Internships_Completed"} : IntFieldError(body, f)}
    \cup {f \in {"Field_of_Study", "Gender"} : StrFieldError(body, f)}

\* The fields of the body that fail StudentInput's validation (the "loc"
\* entries of the 422 response); empty when the model is constructed.
StudentInput(body) ==
    {f \in {"University_GPA", "Soft_Skills_Score", "Networking_Score"} :
        FloatFieldError(body, f)}
    \cup {f \in {"Internships_Completed"} : IntFieldError(body, f)}
    \cup {f \in {"Field_of_Study", "Gender"} : StrFieldError(body, f)}

\* ------------------------------------------------------ fitted pipelines
\* A fitted pipeline is opaque to the service: an instance (the training
\* run that produced it) and a fitted forest.  NoPipeline is Python's None.
NoPipeline == [version |-> 0, forest |-> 0]

Forests == {1, 2}

\* The column order of the ColumnTransformer: numerical features first,
\* then the categorical ones.
preprocess_input(input_data) ==
    <<input_data.University_GPA, input_data.Soft_Skills_Score,
      input_data.Networking_Score, input_data.Internships_Completed,
      input_data.Field_of_Study, input_data.Gender>>

\* The fitted forest as a function of the encoded row: how many of the 200
\* trees vote for class 1.  Forest 1 separates on the GPA alone; forest 2
\* is the same forest with its split moved up by 5 GPA points.
Votes(pipeline, df) ==
    Max(0, 2 * df[1] - HALF * (pipeline.forest - 1))

\* predict_proba: <<P(label=0), P(label=1)>>, the average of the trees.
predict_proba(pipeline, df) ==
    <<N_ESTIMATORS - Votes(pipeline, df), Votes(pipeline, df)>>

\* numpy.argmax: the FIRST index holding the maximum (0-based).
argmax(row) == IF row[2] > row[1] THEN 1 ELSE 0

argmax_last(row) == IF row[2] >= row[1] THEN 1 ELSE 0

pipeline_predict_ties_up(pipeline, df) ==
    argmax_last(predict_proba(pipeline, df))

\* pipeline.predict: classes_[argmax(predict_proba)], classes_ = [0, 1].
pipeline_predict(pipeline, df) ==
    argmax(predict_proba(pipeline, df))

\* predict(input_data), given the pipeline load_pipeline() returned.
predict(pipeline, input_data) ==
    LET df == preprocess_input(input_data)
    IN  [predicted_label |-> pipeline_predict(pipeline, df),
         probability |-> predict_proba(pipeline, df)[2]]

calculate_confidence_no_abs(probability) == (probability - HALF) * 2

calculate_confidence(probability) == Abs(probability - HALF) * 2

\* ------------------------------------------- the preprocessor, opened up
\* For the inference service above a fitted pipeline is opaque.  Training
\* fits its parts, which are modelled here exactly: a number is a cell
\* [nan, num] (num in tenths), an empty CSV cell is NaN for a number and ""
\* for a category, and a statistic is a fraction [num, den].
NaN == [nan |-> TRUE, num |-> 0]
Cell(x) == [nan |-> FALSE, num |-> x]
NoCategory == ""

numerical_features ==
    <<"University_GPA", "Soft_Skills_Score", "Networking_Score",
      "Internships_Completed">>

categorical_features == <<"Field_of_Study", "Gender">>

Range(s) == {s[i] : i \in DOMAIN s}

\* The category values of the model in sorted() order.
Alphabetical ==
    <<"Computer Science", "Female", "Male", "Mathematics", "Other">>

IndexOf(c) == CHOOSE i \in DOMAIN Alphabetical : Alphabetical[i] = c

RECURSIVE SumOver(_, _)
\* Sum of g[i] over the indices i in I.
SumOver(g, I) ==
    IF I = {} THEN 0
    ELSE LET i == CHOOSE k \in I : TRUE
         IN  g[i] + SumOver(g, I \ {i})

\* The rows of X whose cell of feature f is observed.
Observed(X, f) == {i \in DOMAIN X : ~X[i][f].nan}

\* SimpleImputer(strategy='mean').fit: statistics_, the mean of the
\* observed values, as the fraction sum / count.
imputer_mean_fit(X, f) ==
    [num |-> SumOver([i \in DOMAIN X |-> X[i][f].num], Observed(X, f)),
     den |-> Cardinality(Observed(X, f))]

\* SimpleImputer.transform of one cell: x - mean as a fraction over the
\* mean's denominator, which is 0 for an imputed cell.
Deviation(mean, cell) ==
    [num |-> IF cell.nan THEN 0 ELSE mean.den * cell.num - mean.num,
     den |-> mean.den]

\* StandardScaler.fit on the imputed column: var_ (population variance).
scaler_var(X, f) ==
    LET mean == imputer_mean_fit(X, f)
        sq == [i \in DOMAIN X |->
                 Deviation(mean, X[i][f]).num * Deviation(mean, X[i][f]).num]
    IN  [num |-> SumOver(sq, DOMAIN X),
         den |-> mean.den * mean.den * Len(X)]

handle_zeros_missing(var) == var

\* _handle_zeros_in_scale: a scale of 0 is replaced by 1.  The scale is
\* kept squared: scale_ = sqrt(scale2).
handle_zeros_in_scale(var) ==
    IF var.num = 0 THEN [num |-> 1, den |-> 1] ELSE var

\* numerical_pipeline.fit: per feature the imputer's mean and the scaler's
\* mean_, var_ and scale_.  A column without any observed value is
\* discarded by the imputer.
numerical_pipeline_fit(X) ==
    [f \in {g \in Range(numerical_features) : Observed(X, g) # {}} |->
        [mean |-> imputer_mean_fit(X, f),
         var |-> scaler_var(X, f),
         scale2 |-> handle_zeros_in_scale(scaler_var(X, f))]]

\* numerical_pipeline.transform of one row: z = (x - mean_) / scale_, kept
\* exactly as the deviation and the squared scale.
numerical_pipeline_transform(num, row) ==
    [f \in DOMAIN num |->
        [dev |-> Deviation(num[f].mean, row[f]),
         scale2 |-> num[f].scale2]]

\* How often category c occurs in column f of X.
CountOf(X, f, c) == Cardinality({i \in DOMAIN X : X[i][f] = c})

\* The category values observed in column f of X.
Seen(X, f) == {X[i][f] : i \in DOMAIN X} \ {NoCategory}

\* SimpleImputer(strategy='most_frequent').fit: statistics_, the most
\* frequent observed value, the smallest one among equally frequent ones.
imputer_most_frequent_fit(X, f) ==
    CHOOSE c \in Seen(X, f) :
        \A d \in Seen(X, f) :
            \/ CountOf(X, f, c) > CountOf(X, f, d)
            \/ (CountOf(X, f, c) = CountOf(X, f, d)
                  /\ IndexOf(c) <= IndexOf(d))

\* OneHotEncoder.fit on the imputed column: categories_, sorted.
onehot_fit(X, f) ==
    SelectSeq(Alphabetical, LAMBDA c : c \in Seen(X, f))

\* categorical_pipeline.fit: per feature the imputer's mode and the
\* encoder's categories.  A column without any observed value is discarded
\* by the imputer.
categorical_pipeline_fit(X) ==
    [f \in {g \in Range(categorical_features) : Seen(X, g) # {}} |->
        [mode |-> imputer_most_frequent_fit(X, f),
         categories |-> onehot_fit(X, f)]]

\* What stands for the block when transform raises ValueError (unknown
\* category): no indicator vector.
Raised == <<-1>>

onehot_transform_error(categories, value) ==
    IF value \in Range(categories)
    THEN [i \in DOMAIN categories |->
             IF categories[i] = value THEN 1 ELSE 0]
    ELSE Raised

\* OneHotEncoder(handle_unknown='ignore').transform of one value: one
\* indicator per category, all of them 0 for a value not among them.
onehot_transform(categories, value) ==
    [i \in DOMAIN categories |-> IF categories[i] = value THEN 1 ELSE 0]

\* categorical_pipeline.transform of one row: impute, then encode.
categorical_pipeline_transform(cat, row) ==
    [f \in DOMAIN cat |->
        onehot_transform(cat[f].categories,
                         IF row[f] = NoCategory THEN cat[f].mode
                         ELSE row[f])]

\* preprocessor.fit(X): the fitted ColumnTransformer.
preprocessor_fit(X) ==
    [num |-> numerical_pipeline_fit(X), cat |-> categorical_pipeline_fit(X)]

\* preprocessor.transform of one row: the numerical block, then the
\* categorical block.
preprocessor_transform(pre, row) ==
    [num |-> numerical_pipeline_transform(pre.num, row),
     cat |-> categorical_pipeline_transform(pre.cat, row)]

\* --------------------------------------------------------- training data
\* A row of the CSV file: the six features as cells, the salary in dollars
\* and the satisfaction in tenths.
LabeledRecord(gpa, field, soft, salary, satisfaction) ==
    [University_GPA |-> Cell(gpa), Field_of_Study |-> field,
     Gender |-> "Male", Internships_Completed |-> Cell(30),
     Soft_Skills_Score |-> soft, Networking_Score |-> Cell(75),
     Starting_Salary |-> salary, Career_Satisfaction |-> satisfaction]

\* The rows a dataset is made of: one at both thresholds, one a dollar
\* below the salary threshold (with an empty score cell), one a tenth below
\* the satisfaction threshold (with an empty category cell).
RowPool ==
    {LabeledRecord(80, "Computer Science", Cell(80), 50000, 70),
     LabeledRecord(60, "Mathematics", NaN, 49999, 70),
     LabeledRecord(80, NoCategory, Cell(80), 50000, 69)}

\* A StudentInput as a DataFrame row.
AsRow(input_data) ==
    [f \in DOMAIN input_data |->
        IF f \in Range(numerical_features) THEN Cell(input_data[f])
        ELSE input_data[f]]

create_target_variable_strict(df) ==
    [i \in DOMAIN df |->
        [Career_Success |->
            IF df[i].Starting_Salary > SALARY_MIN
               /\ df[i].Career_Satisfaction >= SATISFACTION_MIN
            THEN 1 ELSE 0] @@ df[i]]

\* create_target_variable(df): df with the column Career_Success added.
create_target_variable(df) ==
    [i \in DOMAIN df |->
        [Career_Success |->
            IF df[i].Starting_Salary >= SALARY_MIN
               /\ df[i].Career_Satisfaction >= SATISFACTION_MIN
            THEN 1 ELSE 0] @@ df[i]]

\* train_test_split(test_size=0.2): the test partition has ceil(0.2 n)
\* rows, the train partition the others.
n_test(n) == (n * TEST_PERCENT + 99) \div 100

\* The shuffle of n rows under the fixed random_state: a permutation of
\* 1..n that depends on n alone (here the even indices, then the odd ones).
Shuffle(n) ==
    SelectSeq([i \in 1..n |-> i], LAMBDA i : i % 2 = 0)
    \o SelectSeq([i \in 1..n |-> i], LAMBDA i : i % 2 = 1)

\* The row indices of the test partition and of the train partition.
test_index(n) == SubSeq(Shuffle(n), 1, n_test(n))
train_index(n) == SubSeq(Shuffle(n), n_test(n) + 1, n)

\* df.iloc[index]
Take(df, index) == [k \in DOMAIN index |-> df[index[k]]]

\* ------------------------------------------------------- the classifier
features == numerical_features \o categorical_features

\* The encoded value of feature f in the encoded row x.
Encoded(x, f) == IF f \in DOMAIN x.num THEN x.num[f] ELSE x.cat[f]

\* The features whose encoded value differs between rows of Xt.
Varying(Xt) ==
    {f \in Range(features) :
        /\ \A i \in DOMAIN Xt : f \in DOMAIN Xt[i].num \cup DOMAIN Xt[i].cat
        /\ \E i, j \in DOMAIN Xt : Encoded(Xt[i], f) # Encoded(Xt[j], f)}

\* A tree splits its root only if the node has min_samples_split samples,
\* holds both classes and some feature separates two of its samples.
can_split(Xt, y) ==
    /\ Len(Xt) >= MIN_SAMPLES_SPLIT
    /\ Range(y) = {0, 1}
    /\ Varying(Xt) # {}

\* Of the 200 trees, how many vote for class 1 on the rows in I.
ClassVotes(y, I) ==
    IF I = {} THEN 0 ELSE (N_ESTIMATORS * SumOver(y, I)) \div Cardinality(I)

NoSplit == "none"

\* RandomForestClassifier(...).fit(Xt, y), the trees splitting on feature f
\* (NoSplit when no tree can split): the votes for class 1 in the leaf of
\* every value of f seen, and the votes of a forest of single leaves.
forest_fit(Xt, y, f) ==
    [split_on |-> f,
     leaves |->
        IF f = NoSplit THEN {}
        ELSE {[value |-> Encoded(Xt[i], f),
               votes |-> ClassVotes(y, {j \in DOMAIN Xt :
                            Encoded(Xt[j], f) = Encoded(Xt[i], f)})] :
              i \in DOMAIN Xt},
     prior |-> ClassVotes(y, DOMAIN Xt)]

\* classifier.predict_proba(x)[1] in 1/200.
forest_votes(clf, x) ==
    IF clf.split_on = NoSplit
       \/ \A l \in clf.leaves : l.value # Encoded(x, clf.split_on)
    THEN clf.prior
    ELSE (CHOOSE l \in clf.leaves :
              l.value = Encoded(x, clf.split_on)).votes

\* classifier.feature_importances_ by feature name, each a fraction: the
\* impurity decrease per feature divided by their total, and all zero for
\* a forest in which no tree has a split.
feature_importances(clf, names) ==
    [k \in DOMAIN names |->
        [feature |-> names[k],
         importance |-> [num |-> IF names[k] = clf.split_on THEN 1 ELSE 0,
                         den |-> 1]]]

\* pipeline.fit(X, y): the preprocessor fitted on X, the forest fitted on
\* the transformed X.
pipeline_fit(X, y, f) ==
    LET pre == preprocessor_fit(X)
    IN  [pre |-> pre,
         clf |-> forest_fit([i \in DOMAIN X |->
                                preprocessor_transform(pre, X[i])], y, f)]

\* The features the trees of a forest fitted on (X, y) may split on.
SplitChoices(X, y) ==
    LET pre == preprocessor_fit(X)
        Xt == [i \in DOMAIN X |-> preprocessor_transform(pre, X[i])]
    IN  IF can_split(Xt, y) THEN Varying(Xt) ELSE {NoSplit}

\* pipeline.predict_proba(row)[1]
pipeline_votes(pipeline, row) ==
    forest_votes(pipeline.clf, preprocessor_transform(pipeline.pre, row))

\* ----------------------------------------------- evaluation on the test set
\* How many test rows have true label t and predicted label q.
Confusion(y_true, y_pred, t, q) ==
    Cardinality({i \in DOMAIN y_true : y_true[i] = t /\ y_pred[i] = q})

\* A ratio as a percentage; sklearn's zero_division: 0.0 for x / 0.
Percent(x, d) == IF d = 0 THEN 0 ELSE (100 * x) \div d

accuracy_score(y_true, y_pred) ==
    Percent(Confusion(y_true, y_pred, 1, 1) + Confusion(y_true, y_pred, 0, 0),
            Len(y_true))

precision_score(y_true, y_pred) ==
    Percent(Confusion(y_true, y_pred, 1, 1),
            Confusion(y_true, y_pred, 1, 1) + Confusion(y_true, y_pred, 0, 1))

recall_score(y_true, y_pred) ==
    Percent(Confusion(y_true, y_pred, 1, 1),
            Confusion(y_true, y_pred, 1, 1) + Confusion(y_true, y_pred, 1, 0))

f1_score(y_true, y_pred) ==
    Percent(2 * Confusion(y_true, y_pred, 1, 1),
            2 * Confusion(y_true, y_pred, 1, 1)
              + Confusion(y_true, y_pred, 0, 1)
              + Confusion(y_true, y_pred, 1, 0))

RECURSIVE SortDesc(_)
\* The numbers of S, largest first.
SortDesc(S) ==
    IF S = {} THEN <<>>
    ELSE LET m == CHOOSE x \in S : \A z \in S : x >= z
         IN  <<m>> \o SortDesc(S \ {m})

\* A rate as a percentage; x / 0 is NaN.
Rate(x, d) == IF d = 0 THEN NotANumber ELSE (100 * x) \div d

\* The rows with true label t and a score of at least the threshold.
AtLeast(y_true, y_score, t, threshold) ==
    Cardinality({i \in DOMAIN y_true :
                    y_true[i] = t /\ y_score[i] >= threshold})

roc_curve_no_origin(y_true, y_score) ==
    LET thresholds == SortDesc(Range(y_score))
        P == Cardinality({i \in DOMAIN y_true : y_true[i] = 1})
        N == Cardinality({i \in DOMAIN y_true : y_true[i] = 0})
    IN  [fpr |-> [k \in DOMAIN thresholds |->
                    Rate(AtLeast(y_true, y_score, 0, thresholds[k]), N)],
         tpr |-> [k \in DOMAIN thresholds |->
                    Rate(AtLeast(y_true, y_score, 1, thresholds[k]), P)]]

\* roc_curve(y_true, y_score): a point per distinct score, the highest
\* threshold first, after the point (0, 0) of a threshold above all scores.
roc_curve(y_true, y_score) ==
    LET thresholds == SortDesc(Range(y_score))
        P == Cardinality({i \in DOMAIN y_true : y_true[i] = 1})
        N == Cardinality({i \in DOMAIN y_true : y_true[i] = 0})
    IN  [fpr |-> <<Rate(0, N)>> \o
                 [k \in DOMAIN thresholds |->
                    Rate(AtLeast(y_true, y_score, 0, thresholds[k]), N)],
         tpr |-> <<Rate(0, P)>> \o
                 [k \in DOMAIN thresholds |->
                    Rate(AtLeast(y_true, y_score, 1, thresholds[k]), P)]]

\* auc(fpr, tpr): the trapezoidal rule, as a percentage.
auc(fpr, tpr) ==
    SumOver([k \in 1..(Len(fpr) - 1) |->
                (fpr[k + 1] - fpr[k]) * (tpr[k + 1] + tpr[k])],
            1..(Len(fpr) - 1)) \div 200

\* roc_auc_score(y_true, y_score) with both classes in y_true.
roc_auc_score(y_true, y_score) ==
    auc(roc_curve(y_true, y_score).fpr, roc_curve(y_true, y_score).tpr)

\* ------------------------------------------------------ evaluation metrics
NoMetrics ==
    [accuracy |-> -1, precision |-> -1, recall |-> -1, f1_score |-> -1,
     roc_auc |-> -1, feature_importances |-> <<>>,
     roc_curve |-> [fpr |-> <<>>, tpr |-> <<>>]]

\* -------------------------------------------------- Model Store (SQLite)
\* Text columns: the pickled pipeline as base64, lists and dicts as JSON.
b64encode(x) == <<"base64", x>>
b64decode(t) == t[2]
json_dumps(x) == <<"json", x>>
json_loads(t) == t[2]

\* A row of trained_pipeline.
TrainedPipelineRow(id, pipeline) ==
    [id |-> id,
     pipeline_base64 |-> b64encode(pipeline),
     model_version |-> "1.0",
     feature_names |-> json_dumps(<<>>)]

ModelMetricsRowF1(id, m) ==
    [id |-> id, accuracy |-> m.accuracy, precision |-> m.precision,
     recall |-> m.recall, f1_score |-> m.accuracy, roc_auc |-> m.roc_auc,
     feature_importances |-> json_dumps(m.feature_importances),
     roc_curve |-> json_dumps(m.roc_curve)]

\* A row of model_metrics.
ModelMetricsRow(id, m) ==
    [id |-> id, accuracy |-> m.accuracy, precision |-> m.precision,
     recall |-> m.recall, f1_score |-> m.f1_score, roc_auc |-> m.roc_auc,
     feature_importances |-> json_dumps(m.feature_importances),
     roc_curve |-> json_dumps(m.roc_curve)]

PredictionRowOtherClass(id, input_data, predicted_label, probability) ==
    [id |-> id, timestamp |-> id, input_data |-> json_dumps(input_data),
     predicted_label |-> predicted_label,
     probability |-> N_ESTIMATORS - probability]

\* A row of predictions; the timestamp is the insertion order.
PredictionRow(id, input_data, predicted_label, probability) ==
    [id |-> id, timestamp |-> id, input_data |-> json_dumps(input_data),
     predicted_label |-> predicted_label, probability |-> probability]

\* DatabaseService.get_trained_pipeline(): the pipeline of the last
\* training run, NoPipeline when the table is empty.
get_trained_pipeline(rows) ==
    IF rows = <<>> THEN NoPipeline
    ELSE b64decode(Last(rows).pipeline_base64)

\* DatabaseService.get_model_metrics(): the metrics of the last training
\* run as a dict, NoMetrics when the table is empty.
db_get_model_metrics(rows) ==
    IF rows = <<>> THEN NoMetrics
    ELSE LET r == Last(rows)
         IN  [accuracy |-> r.accuracy, precision |-> r.precision,
              recall |-> r.recall, f1_score |-> r.f1_score,
              roc_auc |-> r.roc_auc,
              feature_importances |-> json_loads(r.feature_importances),
              roc_curve |-> json_loads(r.roc_curve)]

\* ------------------------------------------------------------------ state
VARIABLES
    trained_pipeline,   \* table trained_pipeline: rows, oldest first
    model_metrics,      \* table model_metrics: rows, oldest first
    predictions,        \* table predictions: rows, oldest first
    cached_pipeline,    \* ml_service._cached_pipeline of the server process
    inbox,              \* POST /predict requests received and not yet handled
    response,           \* the last HTTP response the server sent
    used_pipelines,     \* history: instances that produced a prediction
    trained,            \* history: what the last training run handed over
    formData,           \* PredictionForm: the StudentInput being edited
    errors,             \* PredictionForm: FormErrors, a message per field
    loading,            \* PredictionForm: a request is under way
    prediction,         \* PredictionForm: the PredictionResponse shown
    http_post,          \* POST /predict requests of the form in flight
    submitted,          \* history: the form data of the form's last POST
    dataset,            \* train_model.py: df, the rows read from the CSV
    job,                \* train_model.py: how far the run is, what it holds
    probe,              \* the last record put through the stored pipeline
    store_up,           \* the Model Store answers (the database is reachable)
    call,               \* history: the request the server handled last
    store_attempts,     \* history: calls of the store made for that request
    load_failed,        \* history: a load_pipeline() has come back empty
    dashboard,          \* Dashboard: metrics, loading, error
    history,            \* HistoryTable: predictions, loading, error
    http_get,           \* GET requests of the two pages in flight
    settled,            \* history: how the last fetch of each page ended
    history_reply,      \* the last response of GET /history to an API client
    chart               \* FeatureImportanceChart: sortedData as rendered

backend_vars ==
    <<trained_pipeline, model_metrics, predictions, cached_pipeline, inbox,
      response, used_pipelines, trained>>

form_vars ==
    <<formData, errors, loading, prediction, http_post, submitted>>

train_vars == <<dataset, job, probe>>

store_vars == <<store_up, call, store_attempts, load_failed>>

view_vars == <<dashboard, history, http_get, settled, history_reply, chart>>

vars == <<backend_vars, form_vars, train_vars, store_vars, view_vars>>

NoResult == [predicted_label |-> -1, probability |-> -1, confidence |-> -1]

\* A response: the route (op), the outcome (status), the fields a 422 names,
\* the PredictionResponse (body) or the ModelMetrics (metrics) returned, and
\* the request body answered.  fetched: the handler read the pipeline from
\* the database.  cold: the request answered had arrived while the cache was
\* empty.  tick flips with every response sent.
NoResponse ==
    [op |-> "none", status |-> "none", fields |-> {}, body |-> NoResult,
     metrics |-> NoMetrics, fetched |-> FALSE, cold |-> FALSE,
     request |-> Base(0), tick |-> 0]

Flip(t) == 1 - t

\* What a training run fits: a forest and the metrics it scores.
TrainingOutcomes ==
    {[forest |-> 1,
      metrics |->
         [accuracy |-> 100, precision |-> 100, recall |-> 100,
          f1_score |-> 100, roc_auc |-> 100,
          feature_importances |->
              <<[feature |-> "University_GPA", importance |-> 60],
                [feature |-> "Soft_Skills_Score", importance |-> 40]>>,
          roc_curve |-> [fpr |-> <<0, 0, 100>>, tpr |-> <<0, 100, 100>>]]],
     [forest |-> 2,
      metrics |->
         [accuracy |-> 80, precision |-> 75, recall |-> 60,
          f1_score |-> 67, roc_auc |-> 85,
          feature_importances |->
              <<[feature |-> "Networking_Score", importance |-> 30],
                [feature |-> "University_GPA", importance |-> 70]>>,
          roc_curve |-> [fpr |-> <<0, 50, 100>>, tpr |-> <<0, 80, 100>>]]]}

\* FormErrors: a field without a message is undefined.
Undefined == "undefined"

NoErrors == [f \in FieldNames |-> Undefined]

\* The form has not posted anything yet.
NoSubmission == [Base(0) EXCEPT !.Field_of_Study = "", !.Gender = ""]

InitForm ==
    /\ formData = [University_GPA |-> 0, Field_of_Study |-> "",
                   Gender |-> "", Internships_Completed |-> 0,
                   Soft_Skills_Score |-> 0, Networking_Score |-> 0]
    /\ submitted = NoSubmission
    /\ errors = NoErrors
    /\ loading = FALSE
    /\ prediction = NoResult
    /\ http_post = <<>>

\* A pipeline that is not fitted.
NoFit ==
    [pre |-> [num |-> <<>>, cat |-> <<>>],
     clf |-> [split_on |-> NoSplit, leaves |-> {}, prior |-> 0]]

\* The training script before it has read anything.
NoJob ==
    [pc |-> "start", train |-> <<>>, test |-> <<>>, pipeline |-> NoFit,
     metrics |-> NoMetrics, error |-> ""]

NoProbe ==
    [row |-> AsRow(Base(0)), vector |-> [num |-> <<>>, cat |-> <<>>],
     probability |-> -1]

InitTrain ==
    /\ dataset = <<>>
    /\ job = NoJob
    /\ probe = NoProbe

\* The server has handled no request.
NoCall == [op |-> "none", body |-> Base(0)]

NoAttempts == [fetch |-> 0, save |-> 0]

InitStore ==
    /\ store_up = TRUE
    /\ call = NoCall
    /\ store_attempts = NoAttempts
    /\ load_failed = FALSE

\* useState<string | null>(null)
NoError == "null"

\* A GET /history that was never sent.
NoReply == [limit |-> [given |-> FALSE, n |-> 0], status |-> "none", records |-> <<>>, saved |-> 0]

\* sortedData before the chart has rendered.
NotRendered == <<-1>>

\* The two pages as first rendered, their effects not yet run.
InitViews ==
    /\ dashboard = [metrics |-> NoMetrics, loading |-> TRUE,
                    error |-> NoError]
    /\ history = [predictions |-> <<>>, loading |-> TRUE, error |-> NoError]
    /\ http_get = {}
    /\ settled = [metrics |-> "none", history |-> "none"]
    /\ history_reply = NoReply
    /\ chart = NotRendered

Init ==
    /\ InitForm
    /\ InitTrain
    /\ InitStore
    /\ InitViews
    /\ trained_pipeline = <<>>
    /\ model_metrics = <<>>
    /\ predictions = <<>>
    /\ cached_pipeline = NoPipeline
    /\ inbox = {}
    /\ response = NoResponse
    /\ used_pipelines = {}
    /\ trained = [pipeline |-> NoPipeline, metrics |-> NoMetrics]

\* -------------------------------------------------------------- ml service
load_pipeline_no_cache(cache, rows) ==
    [pipeline |-> get_trained_pipeline(rows),
     cache |-> get_trained_pipeline(rows), fetched |-> TRUE]

load_pipeline_not_kept(cache, rows) ==
    [pipeline |-> get_trained_pipeline(rows), cache |-> NoPipeline,
     fetched |-> TRUE]

load_pipeline_fallback(cache, rows) ==
    IF cache # NoPipeline
    THEN [pipeline |-> cache, cache |-> cache, fetched |-> FALSE]
    ELSE IF rows = <<>>
         THEN [pipeline |-> [version |-> 1, forest |-> 1],
               cache |-> [version |-> 1, forest |-> 1], fetched |-> TRUE]
         ELSE [pipeline |-> get_trained_pipeline(rows),
               cache |-> get_trained_pipeline(rows), fetched |-> TRUE]

\* load_pipeline(): the pipeline it returns, the value it leaves in
\* _cached_pipeline, and whether it went to the database.
load_pipeline(cache, rows) ==
    IF cache # NoPipeline
    THEN [pipeline |-> cache, cache |-> cache, fetched |-> FALSE]
    ELSE [pipeline |-> get_trained_pipeline(rows),
          cache |-> get_trained_pipeline(rows), fetched |-> TRUE]

make_prediction_warm(cache, rows, input_data) ==
    LET l == load_pipeline(cache, rows)
    IN  IF l.pipeline = NoPipeline
        THEN [ok |-> FALSE, result |-> NoResult, pipeline |-> l.pipeline,
              cache |-> l.cache, fetched |-> l.fetched]
        ELSE LET r == predict(l.pipeline, input_data)
                 p == Max(0, r.probability - 10 * Len(predictions))
             IN  [ok |-> TRUE,
                  result |->
                     [predicted_label |-> r.predicted_label,
                      probability |-> p,
                      confidence |-> calculate_confidence(p)],
                  pipeline |-> l.pipeline,
                  cache |-> l.cache, fetched |-> l.fetched]

make_prediction_refits(cache, rows, input_data) ==
    LET l == load_pipeline(cache, rows)
    IN  IF l.pipeline = NoPipeline
        THEN [ok |-> FALSE, result |-> NoResult, pipeline |-> l.pipeline,
              cache |-> l.cache, fetched |-> l.fetched]
        ELSE LET r == predict(l.pipeline, input_data)
             IN  [ok |-> TRUE,
                  result |->
                     [predicted_label |-> r.predicted_label,
                      probability |-> r.probability,
                      confidence |-> calculate_confidence(r.probability)],
                  pipeline |-> l.pipeline,
                  cache |-> [l.cache EXCEPT !.forest = 3 - l.cache.forest],
                  fetched |-> l.fetched]

\* MLService.make_prediction(input_data): load the cached pipeline, predict,
\* derive the confidence.  Without a pipeline the call raises.
make_prediction(cache, rows, input_data) ==
    LET l == load_pipeline(cache, rows)
    IN  IF l.pipeline = NoPipeline
        THEN [ok |-> FALSE, result |-> NoResult, pipeline |-> l.pipeline,
              cache |-> l.cache, fetched |-> l.fetched]
        ELSE LET r == predict(l.pipeline, input_data)
             IN  [ok |-> TRUE,
                  result |->
                     [predicted_label |-> r.predicted_label,
                      probability |-> r.probability,
                      confidence |-> calculate_confidence(r.probability)],
                  pipeline |-> l.pipeline,
                  cache |-> l.cache, fetched |-> l.fetched]

\* ---------------------------------------------------------------- actions
\* scripts/train_model.py: fit, evaluate, store the pipeline and its metrics.
Train ==
    /\ Len(trained_pipeline) < MaxRuns
    /\ \E o \in TrainingOutcomes :
        LET id == Len(trained_pipeline) + 1
            p == [version |-> id, forest |-> o.forest]
        IN  /\ trained_pipeline' =
                   Append(trained_pipeline, TrainedPipelineRow(id, p))
            /\ model_metrics' =
                   Append(model_metrics, ModelMetricsRow(id, o.metrics))
            /\ trained' = [pipeline |-> p, metrics |-> o.metrics]
    /\ UNCHANGED <<predictions, cached_pipeline, inbox, response,
                   used_pipelines>>
    /\ UNCHANGED form_vars
    /\ UNCHANGED train_vars
    /\ UNCHANGED <<store_vars, view_vars>>

\* A client sends POST /predict with a body that StudentInput accepts; the
\* request waits for the event loop.  cold: the cache was empty on arrival.
Arrive ==
    /\ Cardinality(inbox) < MaxPending
    /\ \E body \in Bodies :
        /\ StudentInput(body) = {}
        /\ inbox' = inbox \cup
                   {[body |-> body, cold |-> cached_pipeline = NoPipeline]}
    /\ inbox' # inbox
    /\ UNCHANGED <<trained_pipeline, model_metrics, predictions,
                   cached_pipeline, response, used_pipelines, trained>>
    /\ UNCHANGED form_vars
    /\ UNCHANGED train_vars
    /\ UNCHANGED <<store_vars, view_vars>>

\* POST /predict, request validation: a body that is no StudentInput is
\* answered 422 with the failing fields, and the route function is not
\* called.  Nothing waits on such a request, so it is answered in the step
\* in which it arrives.
RejectInvalid ==
    /\ \E body \in Bodies :
        /\ StudentInput(body) # {}
        /\ response' = [op |-> "predict", status |-> "InvalidInputError",
                        fields |-> StudentInput(body),
                        body |-> NoResult, metrics |-> NoMetrics,
                        fetched |-> FALSE,
                        cold |-> cached_pipeline = NoPipeline,
                        request |-> body, tick |-> Flip(response.tick)]
    /\ UNCHANGED <<trained_pipeline, model_metrics, predictions,
                   cached_pipeline, inbox, used_pipelines, trained>>
    /\ UNCHANGED form_vars
    /\ UNCHANGED train_vars
    /\ UNCHANGED <<store_vars, view_vars>>

\* POST /predict, the route function: it has no await, so it runs to its
\* end before the event loop takes the next request.
predict_career_success ==
    /\ \E req \in inbox :
        LET r == make_prediction(cached_pipeline, trained_pipeline, req.body)
        IN  /\ r.ok => Len(predictions) < MaxPredictions
            /\ inbox' = inbox \ {req}
            /\ cached_pipeline' = r.cache
            /\ IF r.ok
               THEN /\ predictions' =
                          Append(predictions,
                                 PredictionRow(Len(predictions) + 1, req.body,
                                               r.result.predicted_label,
                                               r.result.probability))
                    /\ used_pipelines' =
                          used_pipelines \cup {r.pipeline.version}
                    /\ response' = [op |-> "predict", status |-> "ok",
                                    fields |-> {}, body |-> r.result,
                                    metrics |-> NoMetrics,
                                    fetched |-> r.fetched,
                                    cold |-> req.cold,
                                    request |-> req.body,
                                    tick |-> Flip(response.tick)]
               ELSE /\ response' = [op |-> "predict",
                                    status |-> "ModelNotTrainedError",
                                    fields |-> {}, body |-> NoResult,
                                    metrics |-> NoMetrics,
                                    fetched |-> r.fetched,
                                    cold |-> req.cold,
                                    request |-> req.body,
                                    tick |-> Flip(response.tick)]
                    /\ UNCHANGED <<predictions, used_pipelines>>
    /\ UNCHANGED <<trained_pipeline, model_metrics, trained>>
    /\ UNCHANGED form_vars
    /\ UNCHANGED train_vars
    /\ UNCHANGED <<store_vars, view_vars>>

get_model_metrics_zeros(metrics_data) ==
    [status |-> "ok",
     body |-> IF metrics_data = NoMetrics
              THEN [NoMetrics EXCEPT !.accuracy = 0, !.precision = 0,
                      !.recall = 0, !.f1_score = 0, !.roc_auc = 0]
              ELSE metrics_data]

get_model_metrics_swapped(metrics_data) ==
    IF metrics_data = NoMetrics
    THEN [status |-> "MetricsUnavailableError", body |-> NoMetrics]
    ELSE [status |-> "ok",
          body |-> [metrics_data EXCEPT !.precision = metrics_data.recall,
                                        !.recall = metrics_data.precision]]

\* GET /metrics: the response built from what the database returned.
get_model_metrics(metrics_data) ==
    IF metrics_data = NoMetrics
    THEN [status |-> "MetricsUnavailableError", body |-> NoMetrics]
    ELSE [status |-> "ok",
          body |-> [accuracy |-> metrics_data.accuracy,
                    precision |-> metrics_data.precision,
                    recall |-> metrics_data.recall,
                    f1_score |-> metrics_data.f1_score,
                    roc_auc |-> metrics_data.roc_auc,
                    feature_importances |-> metrics_data.feature_importances,
                    roc_curve |-> metrics_data.roc_curve]]

GetMetrics ==
    /\ LET m == get_model_metrics(db_get_model_metrics(model_metrics))
       IN  response' = [op |-> "metrics", status |-> m.status, fields |-> {},
                        body |-> NoResult, metrics |-> m.body,
                        fetched |-> FALSE, cold |-> FALSE,
                        request |-> Base(0), tick |-> Flip(response.tick)]
    /\ UNCHANGED <<trained_pipeline, model_metrics, predictions,
                   cached_pipeline, inbox, used_pipelines, trained>>
    /\ UNCHANGED form_vars
    /\ UNCHANGED train_vars
    /\ UNCHANGED <<store_vars, view_vars>>

\* ---------------------------------------------------------- the frontend
\* What the user can type into a number input or pick in a select.
TextsFor(name) ==
    CASE name = "University_GPA" -> {"", "2.5", "11"}
      [] name = "Internships_Completed" -> {"", "2.5", "-1"}
      [] name = "Soft_Skills_Score" -> {"", "11"}
      [] name = "Networking_Score" -> {"", "-1"}
      [] name = "Field_of_Study" -> {"", "Computer Science"}
      [] OTHER -> {"", "Male"}

\* parseFloat on those texts, in tenths; the empty text gives NaN.
parseFloat(value) ==
    CASE value = "2.5" -> [nan |-> FALSE, num |-> 25]
      [] value = "11" -> [nan |-> FALSE, num |-> 110]
      [] value = "-1" -> [nan |-> FALSE, num |-> -10]
      [] OTHER -> [nan |-> TRUE, num |-> 0]

OrZero_nan(x) == IF x.nan THEN NotANumber ELSE x.num

\* x || 0 : NaN and 0 are falsy.
OrZero(x) == IF x.nan \/ x.num = 0 THEN 0 ELSE x.num

handleChange ==
    /\ \E name \in FieldNames : \E value \in TextsFor(name) :
        /\ formData' =
              [formData EXCEPT ![name] =
                  IF name = "Field_of_Study" \/ name = "Gender"
                  THEN value
                  ELSE OrZero(parseFloat(value))]
        /\ errors' = [errors EXCEPT ![name] = Undefined]
    /\ UNCHANGED <<loading, prediction, http_post, submitted>>
    /\ UNCHANGED backend_vars
    /\ UNCHANGED train_vars
    /\ UNCHANGED <<store_vars, view_vars>>

newErrors_gpa_unbounded(data) ==
    [f \in FieldNames |->
        CASE f = "University_GPA" ->
                IF data.University_GPA < 0
                THEN "GPA must be between 0 and 10" ELSE Undefined
          [] f = "Field_of_Study" ->
                IF data.Field_of_Study = ""
                THEN "Please select a field of study" ELSE Undefined
          [] f = "Gender" ->
                IF data.Gender = ""
                THEN "Please select a gender" ELSE Undefined
          [] f = "Internships_Completed" ->
                IF data.Internships_Completed < 0
                THEN "Internships must be non-negative" ELSE Undefined
          [] f = "Soft_Skills_Score" ->
                IF data.Soft_Skills_Score < 0 \/ data.Soft_Skills_Score > 100
                THEN "Score must be between 0 and 10" ELSE Undefined
          [] OTHER ->
                IF data.Networking_Score < 0 \/ data.Networking_Score > 100
                THEN "Score must be between 0 and 10" ELSE Undefined]

\* validateForm(): newErrors, as a total map.
newErrors(data) ==
    [f \in FieldNames |->
        CASE f = "University_GPA" ->
                IF data.University_GPA < 0 \/ data.University_GPA > 100
                THEN "GPA must be between 0 and 10" ELSE Undefined
          [] f = "Field_of_Study" ->
                IF data.Field_of_Study = ""
                THEN "Please select a field of study" ELSE Undefined
          [] f = "Gender" ->
                IF data.Gender = ""
                THEN "Please select a gender" ELSE Undefined
          [] f = "Internships_Completed" ->
                IF data.Internships_Completed < 0
                THEN "Internships must be non-negative" ELSE Undefined
          [] f = "Soft_Skills_Score" ->
                IF data.Soft_Skills_Score < 0 \/ data.Soft_Skills_Score > 100
                THEN "Score must be between 0 and 10" ELSE Undefined
          [] OTHER ->
                IF data.Networking_Score < 0 \/ data.Networking_Score > 100
                THEN "Score must be between 0 and 10" ELSE Undefined]

\* validateForm()'s return value: Object.keys(newErrors).length === 0.
validateForm(data) == \A f \in FieldNames : newErrors(data)[f] = Undefined

handleSubmit_keeps_prediction ==
    /\ ~loading
    /\ errors' = newErrors(formData)
    /\ IF validateForm(formData)
       THEN /\ loading' = TRUE
            /\ http_post' = Append(http_post, formData)
            /\ submitted' = formData
            /\ UNCHANGED prediction
       ELSE UNCHANGED <<loading, prediction, http_post, submitted>>
    /\ UNCHANGED formData
    /\ UNCHANGED backend_vars
    /\ UNCHANGED train_vars
    /\ UNCHANGED <<store_vars, view_vars>>

handleSubmit_enabled ==
    /\ errors' = newErrors(formData)
    /\ IF validateForm(formData)
       THEN /\ loading' = TRUE
            /\ prediction' = NoResult
            /\ http_post' = Append(http_post, formData)
            /\ submitted' = formData
       ELSE UNCHANGED <<loading, prediction, http_post, submitted>>
    /\ UNCHANGED formData
    /\ UNCHANGED backend_vars
    /\ UNCHANGED train_vars
    /\ UNCHANGED <<store_vars, view_vars>>

\* handleSubmit up to its await.  The submit button is disabled while
\* loading, so no submit event reaches the form then.
handleSubmit ==
    /\ ~loading
    /\ errors' = newErrors(formData)
    /\ IF validateForm(formData)
       THEN /\ loading' = TRUE
            /\ prediction' = NoResult
            /\ http_post' = Append(http_post, formData)
            /\ submitted' = formData
       ELSE UNCHANGED <<loading, prediction, http_post, submitted>>
    /\ UNCHANGED formData
    /\ UNCHANGED backend_vars
    /\ UNCHANGED train_vars
    /\ UNCHANGED <<store_vars, view_vars>>

\* The server as the form sees it: the API of a deployment whose training
\* script has run once.
DeployedRows == <<TrainedPipelineRow(1, [version |-> 1, forest |-> 1])>>

\* handleSubmit from its await on, request answered 200: setPrediction,
\* then finally setLoading(false).
PostResolved ==
    /\ http_post # <<>>
    /\ StudentInput(Head(http_post)) = {}
    /\ prediction' =
          make_prediction(NoPipeline, DeployedRows, Head(http_post)).result
    /\ loading' = FALSE
    /\ http_post' = Tail(http_post)
    /\ UNCHANGED <<formData, errors, submitted>>
    /\ UNCHANGED backend_vars
    /\ UNCHANGED train_vars
    /\ UNCHANGED <<store_vars, view_vars>>

\* handleSubmit from its await on, request failed (a 422 of the validation,
\* a 5xx, no connection): alert, then finally setLoading(false).
PostRejected ==
    /\ http_post # <<>>
    /\ loading' = FALSE
    /\ http_post' = Tail(http_post)
    /\ UNCHANGED <<formData, errors, prediction, submitted>>
    /\ UNCHANGED backend_vars
    /\ UNCHANGED train_vars
    /\ UNCHANGED <<store_vars, view_vars>>

NextForm ==
    \/ handleChange
    \/ handleSubmit
    \/ PostResolved
    \/ PostRejected

SpecForm == Init /\ [][NextForm]_vars

\* ------------------------------------------------ scripts/train_model.py
\* The store a training run finds: a deployment trained once before.
DeployedMetrics ==
    [accuracy |-> 100, precision |-> 100, recall |-> 100, f1_score |-> 100,
     roc_auc |-> 100,
     feature_importances |->
         <<[feature |-> "University_GPA", importance |-> 60],
           [feature |-> "Soft_Skills_Score", importance |-> 40]>>,
     roc_curve |-> [fpr |-> <<0, 0, 100>>, tpr |-> <<0, 100, 100>>]]

InitTrainRun ==
    /\ InitForm
    /\ InitTrain
    /\ InitStore
    /\ InitViews
    /\ trained_pipeline = DeployedRows
    /\ model_metrics = <<ModelMetricsRow(1, DeployedMetrics)>>
    /\ trained = [pipeline |-> b64decode(DeployedRows[1].pipeline_base64),
                  metrics |-> DeployedMetrics]
    /\ predictions = <<>>
    /\ cached_pipeline = NoPipeline
    /\ inbox = {}
    /\ response = NoResponse
    /\ used_pipelines = {}

\* The parts of the state a training run never touches.
UntouchedByTraining ==
    UNCHANGED <<predictions, cached_pipeline, inbox, response,
                used_pipelines, form_vars, store_vars, view_vars>>

\* 1. Load CSV data, a row at a time.
LoadRow ==
    /\ job.pc = "start"
    /\ Len(dataset) < MaxRows
    /\ \E r \in RowPool : dataset' = Append(dataset, r)
    /\ UNCHANGED <<job, probe, trained_pipeline, model_metrics, trained>>
    /\ UntouchedByTraining

\* train() refuses a dataset of fewer than MIN_RECORDS rows.
InsufficientData(df) == Len(df) < MIN_RECORDS

CreateTargetUnchecked ==
    /\ job.pc = "start"
    /\ dataset # <<>>
    /\ dataset' = create_target_variable(dataset)
    /\ job' = [job EXCEPT !.pc = "labelled"]
    /\ UNCHANGED <<probe, trained_pipeline, model_metrics, trained>>
    /\ UntouchedByTraining

\* 2. Create target variable based on salary and satisfaction.
CreateTarget ==
    /\ job.pc = "start"
    /\ IF InsufficientData(dataset)
       THEN /\ job' = [job EXCEPT !.pc = "failed",
                                  !.error = "InsufficientDataError"]
            /\ UNCHANGED dataset
       ELSE /\ dataset' = create_target_variable(dataset)
            /\ job' = [job EXCEPT !.pc = "labelled"]
    /\ UNCHANGED <<probe, trained_pipeline, model_metrics, trained>>
    /\ UntouchedByTraining

\* 3. Split data into train/test sets.
SplitData ==
    /\ job.pc = "labelled"
    /\ job' = [job EXCEPT !.pc = "split",
                          !.train = train_index(Len(dataset)),
                          !.test = test_index(Len(dataset))]
    /\ UNCHANGED <<dataset, probe, trained_pipeline, model_metrics, trained>>
    /\ UntouchedByTraining

\* y = df['Career_Success'] of the rows taken.
Target(df, index) == [k \in DOMAIN index |-> df[index[k]].Career_Success]

FitPipelineOnAll ==
    /\ job.pc = "split"
    /\ \E f \in SplitChoices(Take(dataset, job.train),
                              Target(dataset, job.train)) :
          job' = [job EXCEPT !.pc = "fitted",
                    !.pipeline =
                        [pre |-> preprocessor_fit(dataset),
                         clf |-> pipeline_fit(Take(dataset, job.train),
                                     Target(dataset, job.train), f).clf]]
    /\ UNCHANGED <<dataset, probe, trained_pipeline, model_metrics, trained>>
    /\ UntouchedByTraining

\* 4. Fit preprocessing pipeline and model: pipeline.fit(X_train, y_train).
FitPipeline ==
    /\ job.pc = "split"
    /\ \E f \in SplitChoices(Take(dataset, job.train),
                              Target(dataset, job.train)) :
          job' = [job EXCEPT !.pc = "fitted",
                    !.pipeline = pipeline_fit(Take(dataset, job.train),
                                     Target(dataset, job.train), f)]
    /\ UNCHANGED <<dataset, probe, trained_pipeline, model_metrics, trained>>
    /\ UntouchedByTraining

\* The metrics of the fitted pipeline on the test partition, with the
\* given ROC-AUC.
evaluate(pipeline, X_test, y_test, roc_auc) ==
    LET y_score == [i \in DOMAIN X_test |->
                       pipeline_votes(pipeline, X_test[i])]
        y_pred == [i \in DOMAIN X_test |->
                      argmax(<<N_ESTIMATORS - y_score[i], y_score[i]>>)]
    IN  [accuracy |-> accuracy_score(y_test, y_pred),
         precision |-> precision_score(y_test, y_pred),
         recall |-> recall_score(y_test, y_pred),
         f1_score |-> f1_score(y_test, y_pred),
         roc_auc |-> roc_auc,
         feature_importances |->
             feature_importances(pipeline.clf, features),
         roc_curve |-> roc_curve(y_test, y_score)]

\* 5. Evaluate on test set.  A forest fitted on one class only has a
\* single column of probabilities, and predict_proba(...)[..][1] raises
\* IndexError.  With one class only in y_test the ROC-AUC is not defined:
\* roc_auc_score raises ValueError or, in newer releases of the library,
\* warns and returns NaN.
EvaluateOnTestSet ==
    /\ job.pc = "fitted"
    /\ LET X_test == Take(dataset, job.test)
           y_test == Target(dataset, job.test)
           y_score == [i \in DOMAIN X_test |->
                          pipeline_votes(job.pipeline, X_test[i])]
       IN  IF Range(Target(dataset, job.train)) # {0, 1}
           THEN job' = [job EXCEPT !.pc = "failed", !.error = "IndexError"]
           ELSE IF Range(y_test) = {0, 1}
           THEN job' = [job EXCEPT !.pc = "evaluated",
                          !.metrics =
                              evaluate(job.pipeline, X_test, y_test,
                                       roc_auc_score(y_test, y_score))]
           ELSE \/ job' = [job EXCEPT !.pc = "failed",
                                      !.error = "ValueError"]
                \/ job' = [job EXCEPT !.pc = "evaluated",
                             !.metrics =
                                 evaluate(job.pipeline, X_test, y_test,
                                          NotANumber)]
    /\ UNCHANGED <<dataset, probe, trained_pipeline, model_metrics, trained>>
    /\ UntouchedByTraining

\* The Float columns of model_metrics are nullable=False, and SQLite stores
\* NaN as NULL: such a row is refused.
NotNullViolated(m) ==
    NotANumber \in {m.accuracy, m.precision, m.recall, m.f1_score, m.roc_auc}

\* 6. Serialize model to Base64, 7. Store in SQLite database.
StoreInDatabase ==
    /\ job.pc = "evaluated"
    /\ IF NotNullViolated(job.metrics)
       THEN /\ job' = [job EXCEPT !.pc = "failed",
                                  !.error = "IntegrityError"]
            /\ UNCHANGED <<trained_pipeline, model_metrics, trained>>
       ELSE LET id == Len(trained_pipeline) + 1
                p == [version |-> id] @@ job.pipeline
            IN  /\ trained_pipeline' =
                       Append(trained_pipeline, TrainedPipelineRow(id, p))
                /\ model_metrics' =
                       Append(model_metrics, ModelMetricsRow(id, job.metrics))
                /\ trained' = [pipeline |-> p, metrics |-> job.metrics]
                /\ job' = [job EXCEPT !.pc = "stored"]
    /\ UNCHANGED <<dataset, probe>>
    /\ UntouchedByTraining

\* The records put through the stored pipeline: the example input, an
\* input with a field of study and a GPA the training data do not have,
\* and one with a gender they do not have.
Probes ==
    {Base(80),
     [Base(85) EXCEPT !.Field_of_Study = "Other"],
     [Base(50) EXCEPT !.Gender = "Female"]}

\* pipeline.predict_proba on one row, with the pipeline just stored: the
\* preprocessor's transform, then the forest.  The row is a record sent to
\* the service or a row of the test partition.
Transform ==
    /\ job.pc = "stored"
    /\ \E row \in {AsRow(r) : r \in Probes} \cup {dataset[job.test[1]]} :
          LET p == get_trained_pipeline(trained_pipeline)
          IN  probe' = [row |-> row,
                        vector |-> preprocessor_transform(p.pre, row),
                        probability |-> pipeline_votes(p, row)]
    /\ UNCHANGED <<dataset, job, trained_pipeline, model_metrics, trained>>
    /\ UntouchedByTraining

NextTrain ==
    \/ LoadRow
    \/ CreateTarget
    \/ SplitData
    \/ FitPipeline
    \/ EvaluateOnTestSet
    \/ StoreInDatabase
    \/ Transform

SpecTrain == InitTrainRun /\ [][NextTrain]_vars

\* ------------------------------------------------------- GET /history
\* The limit query parameter: left out, or given as an integer.
Limits ==
    {[given |-> FALSE, n |-> 0]}
    \cup {[given |-> TRUE, n |-> k] :
             k \in {HISTORY_GE - 1, HISTORY_GE, HISTORY_GE + 1, PAGE_LIMIT,
                    HISTORY_LE, HISTORY_LE + 1}}

\* limit: int = Query(default=50, ge=1, le=100): the value bound to limit.
Query(param) == IF param.given THEN param.n ELSE HISTORY_DEFAULT

QueryError_unbounded(param) == Query(param) < HISTORY_GE

\* The request is answered 422 and the route function is not called.
QueryError(param) ==
    Query(param) < HISTORY_GE \/ Query(param) > HISTORY_LE

Min(a, b) == IF a <= b THEN a ELSE b

\* DatabaseService.get_prediction_history(limit): the newest rows of
\* predictions as dicts, newest first, no more than limit of them.
db_get_prediction_history(rows, limit) ==
    [k \in 1..Min(limit, Len(rows)) |->
        LET r == rows[Len(rows) - k + 1]
        IN  [id |-> r.id, timestamp |-> r.timestamp,
             input |-> json_loads(r.input_data),
             predicted_label |-> r.predicted_label,
             probability |-> r.probability]]

\* PredictionRecord(**pred)
PredictionRecord(pred) ==
    [id |-> pred.id, timestamp |-> pred.timestamp, input |-> pred.input,
     predicted_label |-> pred.predicted_label,
     probability |-> pred.probability]

\* GET /history: the response to a request with the given limit parameter.
get_prediction_history(param, rows) ==
    IF QueryError(param)
    THEN [status |-> "422", records |-> <<>>]
    ELSE LET preds == db_get_prediction_history(rows, Query(param))
         IN  [status |-> "ok",
              records |-> [k \in DOMAIN preds |-> PredictionRecord(preds[k])]]

\* The predictions table of a deployment that has answered k requests.
SavedBefore(k) ==
    [i \in 1..k |->
        LET body == Base(IF i % 2 = 0 THEN 100 ELSE 50)
            r == make_prediction(NoPipeline, DeployedRows, body).result
        IN  PredictionRow(i, body, r.predicted_label, r.probability)]

\* The table sizes a page is opened on: an empty table, and one row short
\* of what the HistoryTable asks for.
TableSizes == {0, PAGE_LIMIT - 1}

\* A deployment that was trained once and has k predictions saved.
InitServer(k) ==
    /\ InitForm
    /\ InitTrain
    /\ InitStore
    /\ trained_pipeline = DeployedRows
    /\ model_metrics = <<ModelMetricsRow(1, DeployedMetrics)>>
    /\ trained = [pipeline |-> b64decode(DeployedRows[1].pipeline_base64),
                  metrics |-> DeployedMetrics]
    /\ predictions = SavedBefore(k)
    /\ cached_pipeline = NoPipeline
    /\ inbox = {}
    /\ response = NoResponse
    /\ used_pipelines = {}

\* The pages opened next to that deployment.
InitDeployed(k) == InitServer(k) /\ InitViews

\* What the pages and the API client leave alone.
UntouchedByViews ==
    UNCHANGED <<trained_pipeline, model_metrics, cached_pipeline, inbox,
                response, used_pipelines, trained, form_vars, train_vars,
                store_vars>>

\* POST /predict of some client, answered 200: a row is saved.
SavePrediction ==
    /\ \E k \in TableSizes : Len(predictions) - k \in 0..(MaxSaved - 1)
    /\ \E body \in ValidBodies :
        LET r == make_prediction(NoPipeline, DeployedRows, body).result
        IN  predictions' =
               Append(predictions,
                      PredictionRow(Len(predictions) + 1, body,
                                    r.predicted_label, r.probability))
    /\ UNCHANGED view_vars
    /\ UntouchedByViews

\* GET /history of an API client, with any limit parameter.
GetHistory ==
    /\ \E param \in Limits :
        LET a == get_prediction_history(param, predictions)
        IN  history_reply' = [limit |-> param, status |-> a.status,
                              records |-> a.records,
                              saved |-> Len(predictions)]
    /\ UNCHANGED <<dashboard, history, http_get, settled, chart>>
    /\ UNCHANGED predictions
    /\ UntouchedByViews

\* ------------------------------------------- Dashboard and HistoryTable
\* err.response?.data?.detail || fallback: the detail of an error response,
\* the fallback text when there is none.
ErrorTexts(fallback) == {"Internal Server Error", fallback}

fetchMetrics_keeps_error ==
    /\ "metrics" \notin http_get
    /\ \/ dashboard.loading
       \/ dashboard.error # NoError
    /\ dashboard' = [dashboard EXCEPT !.loading = TRUE]
    /\ http_get' = http_get \cup {"metrics"}
    /\ UNCHANGED <<history, settled, history_reply, chart>>
    /\ UNCHANGED predictions
    /\ UntouchedByViews

\* fetchMetrics up to its await.  It is called by the effect of the first
\* render, which shows no button, and by the Retry button, which only the
\* error view has.
fetchMetrics ==
    /\ "metrics" \notin http_get
    /\ \/ dashboard.loading
       \/ dashboard.error # NoError
    /\ dashboard' = [dashboard EXCEPT !.loading = TRUE, !.error = NoError]
    /\ http_get' = http_get \cup {"metrics"}
    /\ UNCHANGED <<history, settled, history_reply, chart>>
    /\ UNCHANGED predictions
    /\ UntouchedByViews

\* fetchMetrics from its await on, request answered 200: setMetrics, then
\* finally setLoading(false).
MetricsResolved ==
    /\ "metrics" \in http_get
    /\ LET m == get_model_metrics(db_get_model_metrics(model_metrics))
       IN  /\ m.status = "ok"
           /\ dashboard' = [dashboard EXCEPT !.metrics = m.body,
                                             !.loading = FALSE]
    /\ http_get' = http_get \ {"metrics"}
    /\ settled' = [settled EXCEPT !.metrics = "ok"]
    /\ UNCHANGED <<history, history_reply, chart>>
    /\ UNCHANGED predictions
    /\ UntouchedByViews

\* fetchMetrics from its await on, request failed: setError, then finally
\* setLoading(false).
MetricsRejected ==
    /\ "metrics" \in http_get
    /\ \E text \in ErrorTexts("Failed to load metrics") :
        dashboard' = [dashboard EXCEPT !.error = text, !.loading = FALSE]
    /\ http_get' = http_get \ {"metrics"}
    /\ settled' = [settled EXCEPT !.metrics = "failed"]
    /\ UNCHANGED <<history, history_reply, chart>>
    /\ UNCHANGED predictions
    /\ UntouchedByViews

\* fetchHistory up to its await: by the effect of the first render or by
\* the Retry button of the error view.
fetchHistory ==
    /\ "history" \notin http_get
    /\ \/ history.loading
       \/ history.error # NoError
    /\ history' = [history EXCEPT !.loading = TRUE, !.error = NoError]
    /\ http_get' = http_get \cup {"history"}
    /\ UNCHANGED <<dashboard, settled, history_reply, chart>>
    /\ UNCHANGED predictions
    /\ UntouchedByViews

\* fetchHistory from its await on, GET /history?limit=50 answered 200.
HistoryResolved ==
    /\ "history" \in http_get
    /\ LET a == get_prediction_history([given |-> TRUE, n |-> PAGE_LIMIT],
                                       predictions)
       IN  /\ a.status = "ok"
           /\ history' = [history EXCEPT !.predictions = a.records,
                                         !.loading = FALSE]
    /\ http_get' = http_get \ {"history"}
    /\ settled' = [settled EXCEPT !.history = "ok"]
    /\ UNCHANGED <<dashboard, history_reply, chart>>
    /\ UNCHANGED predictions
    /\ UntouchedByViews

\* fetchHistory from its await on, request failed.
HistoryRejected ==
    /\ "history" \in http_get
    /\ \E text \in ErrorTexts("Failed to load prediction history") :
        history' = [history EXCEPT !.error = text, !.loading = FALSE]
    /\ http_get' = http_get \ {"history"}
    /\ settled' = [settled EXCEPT !.history = "failed"]
    /\ UNCHANGED <<dashboard, history_reply, chart>>
    /\ UNCHANGED predictions
    /\ UntouchedByViews

\* What a page renders: the loading view, the error view with its Retry
\* button, or the data.
View(page) ==
    IF page.loading THEN "loading"
    ELSE IF page.error # NoError THEN "error"
    ELSE "data"

\* The history endpoint with its clients: the HistoryTable and API calls.
NextHistory ==
    \/ SavePrediction
    \/ GetHistory
    \/ fetchHistory
    \/ HistoryResolved
    \/ HistoryRejected

SpecHistory ==
    (\E k \in TableSizes : InitDeployed(k)) /\ [][NextHistory]_vars

\* The two pages open in the browser next to a running deployment.
NextPages ==
    \/ SavePrediction
    \/ fetchMetrics
    \/ MetricsResolved
    \/ MetricsRejected
    \/ fetchHistory
    \/ HistoryResolved
    \/ HistoryRejected

SpecPages == InitDeployed(0) /\ [][NextPages]_vars

\* A request a page has sent is answered or fails: its promise settles.
SpecPagesFair ==
    /\ SpecPages
    /\ WF_vars(MetricsResolved \/ MetricsRejected)
    /\ WF_vars(HistoryResolved \/ HistoryRejected)

\* ---------------------------------------------- FeatureImportanceChart
\* The name of the k-th feature of the metrics.
FeatureName(k) == <<"feature", k>>

\* The feature_importances lists the chart is given: up to MaxFeatures
\* features, each with one of two importances.
FeatureLists ==
    UNION {[1..n -> {10, 20}] : n \in 0..MaxFeatures}

RECURSIVE Array_sort(_)
\* arr.sort((a, b) => b.importance - a.importance): the stable sort of arr
\* by importance, highest first.
Array_sort(arr) ==
    IF arr = <<>> THEN <<>>
    ELSE LET front == Array_sort(SubSeq(arr, 1, Len(arr) - 1))
             x == arr[Len(arr)]
             ahead == {k \in DOMAIN front :
                          front[k].importance >= x.importance}
             at == IF ahead = {} THEN 0
                   ELSE CHOOSE k \in ahead : \A j \in ahead : j <= k
         IN  SubSeq(front, 1, at) \o <<x>> \o SubSeq(front, at + 1, Len(front))

\* arr.slice(0, n)
slice(arr, n) == SubSeq(arr, 1, Min(n, Len(arr)))

FeatureImportanceChart_in_place(data) ==
    [sortedData |-> slice(Array_sort(data), TOP_FEATURES),
     data |-> Array_sort(data)]

\* [...data].sort(...).slice(0, 10): sort reorders the array it is called
\* on, which is the copy the spread made; data, the array of the Dashboard's
\* metrics, is only read.
FeatureImportanceChart(data) ==
    [sortedData |-> slice(Array_sort(data), TOP_FEATURES),
     data |-> data]

\* The Dashboard shows its data view with some metrics loaded.
InitChart ==
    /\ InitServer(0)
    /\ \E imp \in FeatureLists :
        dashboard =
           [metrics |->
               [DeployedMetrics EXCEPT !.feature_importances =
                   [k \in DOMAIN imp |->
                       [feature |-> FeatureName(k), importance |-> imp[k]]]],
            loading |-> FALSE, error |-> NoError]
    /\ history = [predictions |-> <<>>, loading |-> TRUE, error |-> NoError]
    /\ http_get = {}
    /\ settled = [metrics |-> "ok", history |-> "none"]
    /\ history_reply = NoReply
    /\ chart = NotRendered

\* {metrics && <FeatureImportanceChart data={metrics.feature_importances} />}
RenderChart ==
    /\ View(dashboard) = "data"
    /\ LET c == FeatureImportanceChart(dashboard.metrics.feature_importances)
       IN  /\ chart' = c.sortedData
           /\ dashboard' =
                  [dashboard EXCEPT !.metrics.feature_importances = c.data]
    /\ UNCHANGED <<history, http_get, settled, history_reply>>
    /\ UNCHANGED predictions
    /\ UntouchedByViews

NextChart == RenderChart

SpecChart == InitChart /\ [][NextChart]_vars

\* ------------------------------------------ the server and its database
call_store_retrying(up) ==
    [ok |-> up, attempts |-> IF up THEN 1 ELSE STORE_ATTEMPTS + 1]

\* One call of a DatabaseService method by the service: it returns, or it
\* raises because the database does not answer (in time); the call is not
\* inside a loop.
call_store(up) == [ok |-> up, attempts |-> STORE_ATTEMPTS]

load_pipeline_caches_failure(cache, rows, up) ==
    IF cache # NoPipeline \/ call_store(up).ok
    THEN [pipeline |-> load_pipeline(cache, rows).pipeline,
          cache |-> load_pipeline(cache, rows).cache,
          fetches |-> IF cache # NoPipeline THEN 0
                      ELSE call_store(up).attempts,
          raised |-> FALSE]
    ELSE [pipeline |-> NoPipeline, cache |-> [version |-> -1, forest |-> 0],
          fetches |-> call_store(up).attempts, raised |-> TRUE]

\* load_pipeline() with a database that may fail: when
\* get_trained_pipeline() raises, the assignment to _cached_pipeline is not
\* reached and the exception leaves load_pipeline.
load_pipeline_store(cache, rows, up) ==
    IF cache # NoPipeline \/ call_store(up).ok
    THEN [pipeline |-> load_pipeline(cache, rows).pipeline,
          cache |-> load_pipeline(cache, rows).cache,
          fetches |-> IF cache # NoPipeline THEN 0
                      ELSE call_store(up).attempts,
          raised |-> FALSE]
    ELSE [pipeline |-> NoPipeline, cache |-> cache,
          fetches |-> call_store(up).attempts, raised |-> TRUE]

\* The response of POST /predict to body with the given status.
PredictResponse(status, body, result, fetched) ==
    [op |-> "predict", status |-> status,
     fields |-> IF status = "InvalidInputError" THEN StudentInput(body)
                ELSE {},
     body |-> result, metrics |-> NoMetrics, fetched |-> fetched,
     cold |-> cached_pipeline = NoPipeline, request |-> body,
     tick |-> Flip(response.tick)]

\* The database stops answering, or answers again.
StoreChanges ==
    /\ store_up' = ~store_up
    /\ UNCHANGED <<call, store_attempts, load_failed>>
    /\ UNCHANGED <<backend_vars, form_vars, train_vars, view_vars>>

\* scripts/train_model.py with the database reachable.
TrainStored == store_up /\ Train

\* POST /predict from validation to response: a body that is no
\* StudentInput is answered 422 before the route function; the route
\* function loads the pipeline, predicts and saves the prediction, and an
\* exception of any of them ends the request with an error response.
predict_with_store ==
    /\ \E body \in Bodies :
        LET l == load_pipeline_store(cached_pipeline, trained_pipeline,
                                     store_up)
            r == make_prediction(l.cache, trained_pipeline, body)
            s == call_store(store_up)
        IN  /\ call' = [op |-> "predict", body |-> body]
            /\ IF StudentInput(body) # {}
               THEN /\ response' = PredictResponse("InvalidInputError", body,
                                                   NoResult, FALSE)
                    /\ store_attempts' = NoAttempts
                    /\ UNCHANGED <<cached_pipeline, predictions,
                                   used_pipelines, load_failed>>
               ELSE IF l.raised
               THEN /\ response' = PredictResponse("StoreUnavailableError",
                                                   body, NoResult, TRUE)
                    /\ store_attempts' = [fetch |-> l.fetches, save |-> 0]
                    /\ cached_pipeline' = l.cache
                    /\ load_failed' = TRUE
                    /\ UNCHANGED <<predictions, used_pipelines>>
               ELSE IF l.pipeline = NoPipeline
               THEN /\ response' = PredictResponse("ModelNotTrainedError",
                                                   body, NoResult, TRUE)
                    /\ store_attempts' = [fetch |-> l.fetches, save |-> 0]
                    /\ cached_pipeline' = l.cache
                    /\ load_failed' = TRUE
                    /\ UNCHANGED <<predictions, used_pipelines>>
               ELSE /\ store_attempts' =
                          [fetch |-> l.fetches, save |-> s.attempts]
                    /\ cached_pipeline' = r.cache
                    /\ used_pipelines' =
                          used_pipelines \cup {r.pipeline.version}
                    /\ UNCHANGED load_failed
                    /\ IF s.ok
                       THEN /\ Len(predictions) < MaxPredictions
                            /\ predictions' =
                                  Append(predictions,
                                         PredictionRow(Len(predictions) + 1,
                                                       body,
                                                       r.result.predicted_label,
                                                       r.result.probability))
                            /\ response' =
                                  PredictResponse("ok", body, r.result,
                                                  l.fetches > 0)
                       ELSE /\ response' =
                                  PredictResponse("StoreUnavailableError",
                                                  body, NoResult,
                                                  l.fetches > 0)
                            /\ UNCHANGED predictions
    /\ UNCHANGED <<trained_pipeline, model_metrics, inbox, trained>>
    /\ UNCHANGED store_up
    /\ UNCHANGED <<form_vars, train_vars, view_vars>>

\* The server next to a database that may stop answering.
NextStore ==
    \/ StoreChanges
    \/ TrainStored
    \/ predict_with_store

SpecStore == Init /\ [][NextStore]_vars

Next ==
    \/ Train
    \/ Arrive
    \/ RejectInvalid
    \/ predict_career_success
    \/ GetMetrics

Spec == Init /\ [][Next]_vars

\* ------------------------------------------------------------- properties
\* A step in which the server sent a response.
Sent == response'.tick # response.tick

PredictOk == response.op = "predict" /\ response.status = "ok"

\* C1: every PredictionResult returned has confidence = |probability - 0.5|
\* * 2 for its own probability: probability 0.5 gives confidence 0, and
\* probability 0.0 or 1.0 gives confidence 1.
C1_ConfidenceFromProbability ==
    PredictOk =>
        LET p == response.body.probability
            c == response.body.confidence
        IN  /\ p \in 0..N_ESTIMATORS
            /\ p >= HALF => c = 2 * (p - HALF)
            /\ p < HALF => c = 2 * (HALF - p)
            /\ p = HALF => c = 0
            /\ p \in {0, N_ESTIMATORS} => c = N_ESTIMATORS

C1_Witness ==
    /\ PredictOk
    /\ response.body.probability = 0
    /\ response.body.confidence = N_ESTIMATORS

\* C2 as stated: predicted_label is 1 exactly when probability >= 0.5,
\* the boundary probability = 0.5 included.
C2_LabelAtLeastHalf ==
    PredictOk =>
        (response.body.predicted_label = 1
            <=> response.body.probability >= HALF)

\* C2 as amended: predicted_label is 1 exactly when probability > 0.5 and 0
\* otherwise; at the boundary probability = 0.5 the label is 0.
C2_LabelAboveHalf ==
    PredictOk =>
        /\ response.body.predicted_label \in {0, 1}
        /\ response.body.predicted_label = 1
              <=> response.body.probability > HALF

C2_Witness ==
    /\ PredictOk
    /\ response.body.probability = HALF
    /\ response.body.predicted_label = 0

\* C3: the pipeline is fetched lazily, by a prediction, and once it is
\* cached no later call fetches again or replaces the cached instance;
\* later predictions are made with the cached instance.
C3_LoadOnce ==
    [][/\ cached_pipeline' # cached_pipeline
          => (Sent /\ response'.op = "predict" /\ response'.fetched
              /\ cached_pipeline = NoPipeline)
       /\ cached_pipeline # NoPipeline
          => /\ cached_pipeline' = cached_pipeline
             /\ Sent => ~response'.fetched
             /\ (Sent /\ response'.op = "predict" /\ response'.status = "ok")
                => response'.body.probability =
                     predict(cached_pipeline, response'.request).probability
      ]_vars

C3_Witness ==
    /\ PredictOk
    /\ ~response.fetched
    /\ cached_pipeline.version = 1
    /\ Len(trained_pipeline) = 2
    /\ Len(predictions) = 2

\* C4: callers whose first predict() calls overlap while the cache is empty
\* all predict with one and the same pipeline instance, the cached one.
C4_OnePipelineForAll ==
    /\ Cardinality(used_pipelines) <= 1
    /\ used_pipelines # {} => used_pipelines = {cached_pipeline.version}
    /\ cached_pipeline # NoPipeline
          => \E i \in 1..Len(trained_pipeline) :
                b64decode(trained_pipeline[i].pipeline_base64)
                    = cached_pipeline

\* A caller that arrived while the cache was empty is served from the cache
\* another such caller filled, although a newer pipeline is stored by now.
C4_Witness ==
    /\ PredictOk
    /\ response.cold
    /\ ~response.fetched
    /\ Len(trained_pipeline) = 2
    /\ used_pipelines = {1}

\* The body satisfies the documented domains of a StudentRecord.
InDomain(body) ==
    /\ DOMAIN body = FieldNames
    /\ \A f \in {"University_GPA", "Soft_Skills_Score", "Networking_Score"} :
          body[f] >= 0 /\ body[f] <= 100
    /\ body.Internships_Completed >= 0
    /\ body.Internships_Completed % 10 = 0
    /\ body.Field_of_Study # ""
    /\ body.Gender # ""

\* C5: with no pipeline stored, predict() on a well-formed record fails with
\* ModelNotTrainedError, returns no result and logs nothing, every time;
\* with a pipeline stored it succeeds; a prediction never writes the store.
C5_NotTrainedUntilTraining ==
    [][(Sent /\ response'.op = "predict")
        => /\ UNCHANGED <<trained_pipeline, model_metrics, trained>>
           /\ (InDomain(response'.request) /\ trained_pipeline = <<>>)
              => /\ response'.status = "ModelNotTrainedError"
                 /\ response'.body = NoResult
                 /\ cached_pipeline' = NoPipeline
                 /\ predictions' = predictions
           /\ (InDomain(response'.request) /\ trained_pipeline # <<>>)
              => response'.status = "ok"
      ]_vars

C5_Witness ==
    /\ response.op = "predict"
    /\ response.status = "ModelNotTrainedError"
    /\ response.fetched
    /\ trained_pipeline = <<>>
    /\ inbox # {}

\* The fields the claim names as offending: a score or the GPA outside
\* [0,10], a negative internship count, a required field absent.
Offending(body) ==
    {f \in FieldNames : f \notin DOMAIN body}
    \cup {f \in {"University_GPA", "Soft_Skills_Score", "Networking_Score"}
              \cap DOMAIN body : body[f] < 0 \/ body[f] > 100}
    \cup {f \in {"Internships_Completed"} \cap DOMAIN body : body[f] < 0}

\* C6: a record with an offending field is answered InvalidInputError
\* naming every offending field, and answering it touches neither the
\* pipeline cache nor the database (no load, no prediction, no history row).
C6_InvalidRejectedFirst ==
    [][(Sent /\ response'.op = "predict"
          /\ Offending(response'.request) # {})
        => /\ response'.status = "InvalidInputError"
           /\ Offending(response'.request) \subseteq response'.fields
           /\ response'.body = NoResult
           /\ ~response'.fetched
           /\ UNCHANGED <<cached_pipeline, predictions, used_pipelines,
                          trained_pipeline, model_metrics>>
      ]_vars

\* End-to-end scenario 2: GPA 11 with a pipeline stored and not yet loaded.
C6_Witness ==
    /\ response.status = "InvalidInputError"
    /\ "University_GPA" \in DOMAIN response.request
    /\ response.request.University_GPA = 110
    /\ response.fields = {"University_GPA"}
    /\ trained_pipeline # <<>>
    /\ cached_pipeline = NoPipeline

\* C8: getMetrics() returns exactly the metrics the most recent training
\* run handed over and changes neither table nor the pipeline cache.
C8_MetricsVerbatim ==
    [][(Sent /\ response'.op = "metrics")
        => /\ UNCHANGED <<model_metrics, trained_pipeline, predictions,
                          cached_pipeline, trained>>
           /\ trained.metrics # NoMetrics
              => /\ response'.status = "ok"
                 /\ response'.metrics = trained.metrics
      ]_vars

C8_Witness ==
    /\ response.op = "metrics"
    /\ response.status = "ok"
    /\ Len(model_metrics) = 2
    /\ model_metrics[1].precision # model_metrics[2].precision
    /\ response.metrics = trained.metrics
    /\ response.metrics.precision # response.metrics.recall

\* C9: getMetrics() fails with MetricsUnavailableError exactly while no
\* training run has completed, succeeds afterwards, and trains nothing.
C9_MetricsUnavailableUntilTraining ==
    [][(Sent /\ response'.op = "metrics")
        => /\ UNCHANGED <<model_metrics, trained_pipeline, trained>>
           /\ model_metrics = <<>>
              => /\ response'.status = "MetricsUnavailableError"
                 /\ response'.metrics = NoMetrics
           /\ model_metrics # <<>> => response'.status = "ok"
      ]_vars

C9_Witness ==
    /\ response.op = "metrics"
    /\ response.status = "MetricsUnavailableError"
    /\ model_metrics = <<>>

C11_OneLogRecordPerSuccess ==
    [][LET ok == Sent /\ response'.op = "predict" /\ response'.status = "ok"
       IN  /\ ok => /\ Len(predictions') = Len(predictions) + 1
                    /\ SubSeq(predictions', 1, Len(predictions)) = predictions
                    /\ LET row == Last(predictions')
                       IN  /\ json_loads(row.input_data) = response'.request
                           /\ row.predicted_label =
                                 response'.body.predicted_label
                           /\ row.probability = response'.body.probability
                           /\ row.timestamp = Len(predictions')
                    /\ response'.body.probability =
                          predict(cached_pipeline', response'.request)
                              .probability
           /\ ~ok => predictions' = predictions
      ]_vars

\* Two predictions logged, then a rejected request that logs nothing.
C11_Witness ==
    /\ response.op = "predict"
    /\ response.status = "InvalidInputError"
    /\ Len(predictions) = 2
    /\ predictions[1].probability # predictions[2].probability
    /\ predictions[2].probability # HALF

C20_PipelineReadOnly ==
    [][/\ Sent => /\ UNCHANGED <<trained_pipeline, model_metrics>>
                  /\ cached_pipeline # NoPipeline
                        => cached_pipeline' = cached_pipeline
       /\ (trained_pipeline' # trained_pipeline
              \/ model_metrics' # model_metrics)
          => /\ ~Sent
             /\ Len(trained_pipeline') = Len(trained_pipeline) + 1
             /\ Len(model_metrics') = Len(model_metrics) + 1
             /\ SubSeq(trained_pipeline', 1, Len(trained_pipeline))
                   = trained_pipeline
             /\ SubSeq(model_metrics', 1, Len(model_metrics))
                   = model_metrics
             /\ b64decode(Last(trained_pipeline').pipeline_base64)
                   = trained'.pipeline
             /\ UNCHANGED <<cached_pipeline, predictions>>
      ]_vars

\* A prediction served from the shared cache while another request waits
\* and a newer pipeline is stored.
C20_Witness ==
    /\ PredictOk
    /\ ~response.fetched
    /\ inbox # {}
    /\ Len(trained_pipeline) = 2
    /\ cached_pipeline = b64decode(trained_pipeline[1].pipeline_base64)
    /\ cached_pipeline # b64decode(trained_pipeline[2].pipeline_base64)

\* The training run has derived the labels of its dataset.
Labelled == job.pc # "start" /\ job.error # "InsufficientDataError"

\* C12: once the labels are derived, every row has Career_Success = 1
\* exactly when its salary is at least 50000 and its satisfaction is at
\* least 7, and 0 otherwise.
C12_LabelRule ==
    Labelled =>
        \A i \in DOMAIN dataset :
            /\ dataset[i].Career_Success \in {0, 1}
            /\ dataset[i].Career_Success = 1
                  <=> (dataset[i].Starting_Salary >= 50000
                       /\ dataset[i].Career_Satisfaction >= 70)

\* A labelled dataset with a row at both thresholds (label 1), a row a
\* dollar below the salary threshold and a row a tenth below the
\* satisfaction threshold (label 0).
C12_Witness ==
    /\ Labelled
    /\ \E i, j, k \in DOMAIN dataset :
          /\ dataset[i].Starting_Salary = 50000
          /\ dataset[i].Career_Satisfaction = 70
          /\ dataset[i].Career_Success = 1
          /\ dataset[j].Starting_Salary = 49999
          /\ dataset[j].Career_Success = 0
          /\ dataset[k].Career_Satisfaction = 69
          /\ dataset[k].Career_Success = 0

\* C13: a training run on fewer than the minimum number of rows fails with
\* InsufficientDataError, fits and evaluates nothing, and leaves the stored
\* pipeline and metrics as they were; a run on enough rows does not fail
\* with that error.
C13_InsufficientDataNothingStored ==
    /\ (job.pc # "start" /\ Len(dataset) < MIN_RECORDS)
       => /\ job.pc = "failed"
          /\ job.error = "InsufficientDataError"
          /\ job.pipeline = NoFit
          /\ job.metrics = NoMetrics
          /\ trained_pipeline = DeployedRows
          /\ model_metrics = <<ModelMetricsRow(1, DeployedMetrics)>>
          /\ db_get_model_metrics(model_metrics) = DeployedMetrics
    /\ Len(dataset) >= MIN_RECORDS => job.error # "InsufficientDataError"

\* One row short of the minimum.
C13_Witness ==
    /\ job.pc = "failed"
    /\ job.error = "InsufficientDataError"
    /\ Len(dataset) = MIN_RECORDS - 1
    /\ Len(trained_pipeline) = 1

\* MetricCard: value={metrics?.roc_auc || 0}; NaN, null and 0 are falsy.
MetricCard(value) == IF value = NotANumber \/ value = 0 THEN 0 ELSE value

\* The test partition of the run holds one class only.
SingleClassTest ==
    /\ Labelled
    /\ job.pc \in {"evaluated", "stored", "failed"}
    /\ Range(Target(dataset, job.test)) # {0, 1}

\* C14 as stated: a run whose test partition holds one class only does not
\* crash, reports roc_auc as the undefined marker, stores it as such, and
\* the dashboard shows the marker and no number.
C14_UndefinedMarkerReported ==
    SingleClassTest =>
        /\ job.pc # "failed"
        /\ job.metrics.roc_auc = NotANumber
        /\ job.pc = "stored"
           => /\ db_get_model_metrics(model_metrics).roc_auc = NotANumber
              /\ MetricCard(db_get_model_metrics(model_metrics).roc_auc)
                    = NotANumber

\* A row has been put through the stored pipeline.
Probed == probe # NoProbe

\* The pipeline the training run stored.
StoredPipeline == get_trained_pipeline(trained_pipeline)

\* The category values of feature f observed in the train partition.
Vocabulary(f) ==
    {dataset[job.train[k]][f] : k \in DOMAIN job.train} \ {NoCategory}

\* C15: encoding a row never fails; for a categorical feature the block has
\* one indicator per value of the training vocabulary, all of them 0 when
\* the row's value is not in the vocabulary and exactly one of them 1 when
\* it is.
C15_UnknownCategoryAllZero ==
    Probed =>
        \A f \in Range(categorical_features) :
            Vocabulary(f) # {} =>
                /\ f \in DOMAIN probe.vector.cat
                /\ LET block == probe.vector.cat[f]
                   IN  /\ block # Raised
                       /\ Len(block) = Cardinality(Vocabulary(f))
                       /\ \A i \in DOMAIN block : block[i] \in {0, 1}
                       /\ (probe.row[f] # NoCategory
                             /\ probe.row[f] \notin Vocabulary(f))
                          => \A i \in DOMAIN block : block[i] = 0
                       /\ probe.row[f] \in Vocabulary(f)
                          => SumOver(block, DOMAIN block) = 1

\* A field of study the training data do not have, against a vocabulary of
\* two fields, next to a gender they have.
C15_Witness ==
    /\ Probed
    /\ probe.row.Field_of_Study = "Other"
    /\ Vocabulary("Field_of_Study") = {"Computer Science", "Mathematics"}
    /\ probe.vector.cat.Field_of_Study = <<0, 0>>
    /\ probe.row.Gender = "Male"
    /\ probe.vector.cat.Gender = <<1>>

\* x - mean for the cell x of a row, as a numerator over the denominator of
\* the mean; a missing cell counts as the mean.
MinusMean(x, mean) == IF x.nan THEN 0 ELSE mean.den * x.num - mean.num

\* The mean and standard deviation in use are those of the train partition,
\* and the scale divided by is never 0.
FrozenStatistics(f) ==
    LET par == StoredPipeline.pre.num[f]
        z == probe.vector.num[f]
        X == Take(dataset, job.train)
    IN  /\ par.mean.den = Cardinality(Observed(X, f))
        /\ par.mean.num =
              SumOver([i \in DOMAIN X |-> X[i][f].num], Observed(X, f))
        /\ z.scale2.num > 0
        /\ z.scale2.den > 0
        /\ z.dev.den = par.mean.den
        /\ par.var.num # 0
           => /\ z.scale2 = par.var
              /\ z.dev.num = MinusMean(probe.row[f], par.mean)

\* C16 as stated: a feature whose training standard deviation is 0 is
\* encoded as z = 0 whatever its value, without a division by zero; any
\* other numeric feature as (x - mean) / std with the training statistics,
\* a missing value counting as the mean.
C16_ZeroStdGivesZero ==
    Probed =>
        \A f \in DOMAIN probe.vector.num :
            /\ FrozenStatistics(f)
            /\ StoredPipeline.pre.num[f].var.num = 0
               => probe.vector.num[f].dev.num = 0

\* C16 as amended: a feature whose training standard deviation is 0 is
\* encoded as z = x - mean (scale 1, so 0 only for a value equal to the
\* training mean or missing), without a division by zero; any other
\* numeric feature as (x - mean) / std with the training statistics, a
\* missing value counting as the mean.
C16_ZeroStdGivesDeviation ==
    Probed =>
        \A f \in DOMAIN probe.vector.num :
            /\ FrozenStatistics(f)
            /\ StoredPipeline.pre.num[f].var.num = 0
               => /\ probe.vector.num[f].scale2 = [num |-> 1, den |-> 1]
                  /\ probe.vector.num[f].dev.num =
                        MinusMean(probe.row[f],
                                  StoredPipeline.pre.num[f].mean)

\* A test row with GPA 6.0 and no soft-skills score, through a pipeline
\* whose training rows all have GPA 8.0: the GPA is encoded as -2.0, the
\* missing score as 0.
C16_Witness ==
    /\ Probed
    /\ StoredPipeline.pre.num.University_GPA.var.num = 0
    /\ StoredPipeline.pre.num.University_GPA.mean.num
          = 80 * StoredPipeline.pre.num.University_GPA.mean.den
    /\ probe.row.University_GPA = Cell(60)
    /\ probe.vector.num.University_GPA.dev.num
          = -20 * probe.vector.num.University_GPA.dev.den
    /\ probe.row.Soft_Skills_Score = NaN
    /\ probe.vector.num.Soft_Skills_Score.dev.num = 0

\* The training run holds a fitted pipeline.
Fitted == job.pc \in {"fitted", "evaluated", "stored"}

\* C18: the encoder parameters of a run (means, variances, scales, modes
\* and vocabularies) are those fitted on the rows of its train partition,
\* and those rows are the same whatever the test partition holds: replacing
\* any row of the test partition by any other row (same number of rows,
\* same shuffle) leaves the rows given to fit as they are.  Evaluating and
\* storing leave the parameters as fitted.
C18_EncoderFromTrainOnly ==
    Fitted =>
        /\ job.pipeline.pre = preprocessor_fit(Take(dataset, job.train))
        /\ \A k \in DOMAIN job.test : \A r \in RowPool :
              LET other == [dataset EXCEPT ![job.test[k]] = r]
              IN  /\ train_index(Len(other)) = job.train
                  /\ Take(other, train_index(Len(other)))
                        = Take(dataset, job.train)
        /\ job.pc = "stored" => StoredPipeline.pre = job.pipeline.pre

\* The test partition holds a GPA and a field of study that the train
\* partition does not have, and the fitted parameters show neither.
C18_Witness ==
    /\ Fitted
    /\ \E k \in DOMAIN job.test :
          /\ dataset[job.test[k]].Field_of_Study = "Mathematics"
          /\ dataset[job.test[k]].University_GPA = Cell(60)
    /\ "Field_of_Study" \in DOMAIN job.pipeline.pre.cat
    /\ job.pipeline.pre.cat.Field_of_Study.categories
          = <<"Computer Science">>
    /\ job.pipeline.pre.num.University_GPA.var.num = 0
    /\ Len(job.train) = 5

\* The run has produced metrics from a test partition with both classes.
Evaluated ==
    /\ job.pc \in {"evaluated", "stored"}
    /\ Range(Target(dataset, job.test)) = {0, 1}

\* The five scores are in [0,1], and the ROC curve has as many fpr as tpr
\* points, starts at (0,0), ends at (1,1) and never decreases.
ScoresAndCurveWellFormed(m) ==
    /\ \A v \in {m.accuracy, m.precision, m.recall, m.f1_score, m.roc_auc} :
          v \in 0..100
    /\ Len(m.roc_curve.fpr) = Len(m.roc_curve.tpr)
    /\ Len(m.roc_curve.fpr) >= 2
    /\ m.roc_curve.fpr[1] = 0 /\ m.roc_curve.tpr[1] = 0
    /\ Last(m.roc_curve.fpr) = 100 /\ Last(m.roc_curve.tpr) = 100
    /\ \A k \in 1..(Len(m.roc_curve.fpr) - 1) :
          /\ m.roc_curve.fpr[k] <= m.roc_curve.fpr[k + 1]
          /\ m.roc_curve.tpr[k] <= m.roc_curve.tpr[k + 1]

\* The sum of the feature importances, all of them over the denominator 1.
ImportanceSum(m) ==
    SumOver([k \in DOMAIN m.feature_importances |->
                m.feature_importances[k].importance.num],
            DOMAIN m.feature_importances)

FieldCondition(data, f) ==
    CASE f \in {"University_GPA", "Soft_Skills_Score", "Networking_Score"} ->
            data[f] >= GE_MIN /\ data[f] <= LE_MAX
      [] f = "Internships_Completed" -> data[f] >= GE_MIN
      [] OTHER -> data[f] # ""

\* C23: validateForm() returns true exactly when the six field conditions
\* hold, and a submit leaves a message in errors for exactly the fields
\* that violate their condition, whatever errors held before; the request
\* is sent exactly when validateForm() returned true.
C23_ValidateFormExact ==
    [][handleSubmit =>
          /\ \A f \in FieldNames :
                (errors'[f] # Undefined) <=> ~FieldCondition(formData, f)
          /\ validateForm(formData)
                <=> \A f \in FieldNames : FieldCondition(formData, f)
          /\ (http_post' # http_post)
                <=> \A f \in FieldNames : FieldCondition(formData, f)]_vars

\* A submit of GPA 11 without a gender, the field of study chosen: messages
\* for these two fields and for no other, and nothing sent.
C23_Witness ==
    /\ formData.University_GPA = 110
    /\ formData.Gender = ""
    /\ formData.Field_of_Study = "Computer Science"
    /\ {f \in FieldNames : errors[f] # Undefined}
          = {"University_GPA", "Gender"}
    /\ http_post = <<>>
    /\ ~loading

\* C27: the form has at most one POST /predict in flight, and loading is
\* true exactly while it has one: no request is issued while loading, and
\* loading is false again once the request has succeeded or failed.
C27_OneRequestInFlight ==
    /\ Len(http_post) <= 1
    /\ loading <=> http_post # <<>>

\* A request in flight while the user has gone on to edit the form into
\* other valid data, which a submit would send.
C27_Witness ==
    /\ loading
    /\ http_post = <<submitted>>
    /\ formData # submitted
    /\ validateForm(formData)

\* The PredictionResponse the deployed API gives to a request body.
Answer(body) == make_prediction(NoPipeline, DeployedRows, body).result

\* C28: a PredictionResult on display is the response to the form data
\* submitted last; while a request is under way none is displayed, so
\* that a failed request leaves none and the response of an earlier
\* submission is never shown for a later one.
C28_DisplayedIsLastSubmitted ==
    /\ loading => prediction = NoResult
    /\ prediction # NoResult
          => /\ submitted # NoSubmission
             /\ http_post = <<>>
             /\ prediction = Answer(submitted)

\* The result of a submission with GPA 2.5 on display after the user has
\* changed the GPA, to a value whose result would be another.
C28_Witness ==
    /\ prediction # NoResult
    /\ submitted.University_GPA = 25
    /\ prediction = Answer(submitted)
    /\ validateForm(formData)
    /\ Answer(formData) # prediction

NumberInputs ==
    {"University_GPA", "Internships_Completed", "Soft_Skills_Score",
     "Networking_Score"}

\* C30: a handleChange on a field leaves every other field of formData and
\* every other error as they were, removes the error of its own field, and
\* touches neither the prediction on display nor loading; a text that is
\* no number is stored as 0, so that no numeric field of formData is NaN.
C30_HandleChangeFrame ==
    [][handleChange =>
          /\ \E name \in FieldNames :
                /\ \A f \in FieldNames \ {name} :
                      /\ formData'[f] = formData[f]
                      /\ errors'[f] = errors[f]
                /\ errors'[name] = Undefined
          /\ prediction' = prediction
          /\ loading' = loading
          /\ \A f \in NumberInputs : formData'[f] # NotANumber
          /\ \A f \in NumberInputs : \A value \in TextsFor(f) :
                parseFloat(value).nan => OrZero(parseFloat(value)) = 0]_vars

\* With a result on display and messages for both selects, the field of
\* study has been picked and put back to the empty option: its message is
\* gone, the one of the gender is still there.
C30_Witness ==
    /\ prediction # NoResult
    /\ formData.Field_of_Study = ""
    /\ errors.Field_of_Study = Undefined
    /\ formData.Gender = ""
    /\ errors.Gender # Undefined

\* C25 as stated: the pipeline a predict() would use and the metrics a
\* getMetrics() would return are those of one and the same training run,
\* also after a later run has replaced what is stored.
C25_PipelineAndMetricsSameRun ==
    LET used == load_pipeline(cached_pipeline, trained_pipeline).pipeline
        shown == get_model_metrics(db_get_model_metrics(model_metrics))
    IN  (used # NoPipeline /\ shown.status = "ok")
            => /\ used.version = Last(model_metrics).id
               /\ used = trained.pipeline
               /\ shown.body = trained.metrics

\* What the claim says of one page, given its state, its request and how
\* its last fetch ended.
PageShowsOutcome(page, name) ==
    /\ name \in http_get => page.loading /\ page.error = NoError
    /\ name \notin http_get /\ settled[name] = "failed" =>
          View(page) = "error"
    /\ name \notin http_get /\ settled[name] = "ok" =>
          View(page) = "data" /\ page.error = NoError

Ids(records) == {records[k].id : k \in DOMAIN records}

\* The records are those of the n most recently saved rows of a table that
\* holds saved rows, each with the content of its row.
MostRecent(records, n, saved) ==
    /\ Len(records) = Min(n, saved)
    /\ Ids(records) = (saved - Min(n, saved) + 1)..saved
    /\ \A k \in DOMAIN records :
          LET row == predictions[records[k].id]
          IN  /\ row.id = records[k].id
              /\ records[k].input = json_loads(row.input_data)
              /\ records[k].predicted_label = row.predicted_label
              /\ records[k].probability = row.probability
              /\ records[k].timestamp = row.timestamp

C24_ChartTopTen ==
    [][RenderChart =>
         LET data == dashboard.metrics.feature_importances
             shown == {chart'[k] : k \in DOMAIN chart'}
             all == {data[k] : k \in DOMAIN data}
         IN  /\ Len(chart') <= 10
             /\ Len(chart') = Cardinality(shown)
             /\ shown \subseteq all
             /\ Cardinality(all) > 10 => Len(chart') = 10
             /\ Cardinality(all) <= 10 => shown = all
             /\ \A j, k \in DOMAIN chart' :
                   j < k => chart'[j].importance >= chart'[k].importance
             /\ \A s \in shown : \A o \in all \ shown :
                   s.importance >= o.importance
             /\ dashboard'.metrics.feature_importances = data
             /\ dashboard' = dashboard]_vars

\* The chart of eleven features, the most important of them the last of the
\* metrics: it is shown first, and a less important one is left out.
C24_Witness ==
    LET data == dashboard.metrics.feature_importances
    IN  /\ Len(data) = 11
        /\ \A k \in 1..10 : data[k].importance = 10
        /\ data[11].importance = 20
        /\ Len(chart) = 10
        /\ chart[1] = data[11]
        /\ data[10] \notin {chart[k] : k \in DOMAIN chart}

\* The pipelines the trained_pipeline table holds.
StoredPipelines ==
    {b64decode(trained_pipeline[k].pipeline_base64) :
        k \in DOMAIN trained_pipeline}

\* C26: a load_pipeline() that finds no persisted pipeline, or that fails on
\* the store, leaves the cache empty; once a training run has stored a
\* pipeline, the next predict() of the process fetches it and succeeds; what
\* the cache holds is never anything but a stored pipeline.
C26_FailedLoadNotCached ==
    /\ [](cached_pipeline # NoPipeline =>
             cached_pipeline \in StoredPipelines)
    /\ [][predict_with_store /\ StudentInput(call'.body) = {} =>
            /\ cached_pipeline = NoPipeline
                 /\ (trained_pipeline = <<>> \/ ~store_up) =>
                   /\ cached_pipeline' = NoPipeline
                   /\ response'.status # "ok"
                   /\ load_failed'
            /\ cached_pipeline = NoPipeline
                 /\ trained_pipeline # <<>> /\ store_up =>
                   /\ response'.status = "ok"
                   /\ response'.fetched
                   /\ cached_pipeline' =
                         get_trained_pipeline(trained_pipeline)
                   /\ cached_pipeline' # NoPipeline]_vars

\* A load had failed on the store while a pipeline was stored, and a later
\* predict() fetched the pipeline and was answered.
C26_Witness ==
    /\ load_failed
    /\ response.status = "ok"
    /\ response.fetched
    /\ cached_pipeline \in StoredPipelines
    /\ Len(trained_pipeline) = 1

====
